-------------------------- MODULE InventoryTxProofs --------------------------
(***************************************************************************)
(* Theorems about InventoryTx, for any number of connections, skus and     *)
(* reservations: the transactions, opened up to their row locks, have the  *)
(* effect of Inventory's operations one after another, and only shipments  *)
(* can wait for each other in a cycle.                                     *)
(***************************************************************************)
EXTENDS InventoryTx, InventoryProofs, SequenceTheorems

Rows ==
    {StockRow(s) : s \in Sku} \cup {ReservationRow(r) : r \in ReservationId}
        \cup {ProductRow(p) : p \in Product} \cup {SequenceRow}

Transaction ==
    [op : {"none", "reserve", "release", "commit"}, rsv : ReservationId \cup {0},
     order : Order \cup {{}}, items : Items, route : Seq(Rows), held : SUBSET Rows]

\* The rows a transaction has locked or is going to.
Wanted(t) == tx[t].held \cup Range(tx[t].route)

\* A transaction may lock b while it holds a: the reservation comes first, then
\* the stock rows by sku id, and the sequence or the parent products are last.
MayPrecede(a, b) ==
    /\ a # b
    /\ \/ a[1] = "reservation" /\ b[1] # "reservation"
       \/ a[1] = "stock" /\ b[1] = "stock" /\ Rank[a[2]] < Rank[b[2]]
       \/ a[1] = "stock" /\ b[1] \in {"sequence", "product"}
       \/ a[1] = "product" /\ b[1] = "product"

Sorted(route) == \A i, j \in 1..Len(route) : i < j => MayPrecede(route[i], route[j])

\* What a transaction is about does not change under it.
ClaimOK(t) ==
    /\ Idle(t) => tx[t] = NoTx
    /\ tx[t].op = "reserve" => tx[t].order \in Order /\ Listed(tx[t].items) # {}
    /\ tx[t].op \in {"release", "commit"} =>
          /\ tx[t].rsv \in DOMAIN reservations
          /\ tx[t].items = reservations[tx[t].rsv].items
          /\ ReservationRow(tx[t].rsv) \in Wanted(t)

\* It locks every row it is going to write, in order.
RouteOK(t) ==
    /\ \A s \in Listed(tx[t].items) : StockRow(s) \in Wanted(t)
    /\ \A row \in Wanted(t) : row[1] = "product" => tx[t].op = "commit"
    /\ Sorted(tx[t].route)
    /\ \A a \in tx[t].held, b \in Range(tx[t].route) : MayPrecede(a, b)

\* The rows it holds are still as it checked them, and nobody else holds them.
HeldOK(t) ==
    /\ \A row \in tx[t].held : Accepts(t, row)
    /\ \A u \in Tx : u # t => tx[t].held \cap tx[u].held = {}

\* The sequence has handed out the ids there are.
IdsOK == DOMAIN reservations \subseteq 1..Cardinality(DOMAIN reservations)

LocksInv ==
    /\ InventoryTypeOK
    /\ tx \in [Tx -> Transaction]
    /\ IdsOK
    /\ \A t \in Tx : ClaimOK(t) /\ RouteOK(t) /\ HeldOK(t)

-----------------------------------------------------------------------------
(* Rows and routes                                                         *)

\* The four kinds of rows are different, and a row names one thing.
LEMMA RowsDiffer ==
    /\ \A s : StockRow(s)[1] = "stock" /\ StockRow(s)[2] = s
    /\ \A r : ReservationRow(r)[1] = "reservation" /\ ReservationRow(r)[2] = r
    /\ \A p : ProductRow(p)[1] = "product" /\ ProductRow(p)[2] = p
    /\ SequenceRow[1] = "sequence"
  BY DEF StockRow, ReservationRow, ProductRow, SequenceRow

\* Taking the first row off a route.
LEMMA TakeFirst ==
    ASSUME NEW q \in Seq(Rows), q # <<>>, Sorted(q)
    PROVE  /\ Head(q) \in Rows /\ Tail(q) \in Seq(Rows) /\ Sorted(Tail(q))
           /\ Range(q) = {Head(q)} \cup Range(Tail(q))
           /\ \A b \in Range(Tail(q)) : MayPrecede(Head(q), b)
  <1>1. /\ Len(q) \in Nat \ {0} /\ DOMAIN q = 1..Len(q) /\ Head(q) = q[1] /\ Head(q) \in Rows
        /\ Tail(q) \in Seq(Rows) /\ Len(Tail(q)) = Len(q) - 1
        /\ \A i \in 1..Len(Tail(q)) : Tail(q)[i] = q[i + 1]
    BY HeadTailProperties, LenProperties, EmptySeq
  <1>2. DOMAIN Tail(q) = 1..Len(q) - 1
    BY <1>1, LenProperties
  <1>3. Sorted(Tail(q))
    BY <1>1 DEF Sorted
  <1>4. \A i \in 1..Len(q) - 1 : MayPrecede(Head(q), Tail(q)[i]) /\ Tail(q)[i] \in Range(q)
    BY <1>1 DEF Sorted, Range
  <1>5. \A i \in 2..Len(q) : q[i] \in Range(Tail(q))
    <2>. SUFFICES ASSUME NEW i \in 2..Len(q) PROVE q[i] \in Range(Tail(q))
      OBVIOUS
    <2>1. i - 1 \in 1..Len(q) - 1 /\ Tail(q)[i - 1] = q[i]
      BY <1>1
    <2>. QED
      BY <1>2, <2>1 DEF Range
  <1>6. Range(q) = {Head(q)} \cup Range(Tail(q))
    <2>1. Range(Tail(q)) \subseteq Range(q) /\ Head(q) \in Range(q)
      BY <1>1, <1>2, <1>4 DEF Range
    <2>2. \A i \in 1..Len(q) : q[i] \in {Head(q)} \cup Range(Tail(q))
      BY <1>1, <1>5
    <2>. QED
      BY <1>1, <2>1, <2>2 DEF Range
  <1>7. \A b \in Range(Tail(q)) : MayPrecede(Head(q), b)
    BY <1>2, <1>4 DEF Range
  <1>. QED
    BY <1>1, <1>3, <1>6, <1>7

\* Two routes one after the other.
LEMMA Joined ==
    ASSUME NEW p \in Seq(Rows), NEW q \in Seq(Rows), Sorted(p), Sorted(q),
           \A a \in Range(p), b \in Range(q) : MayPrecede(a, b)
    PROVE  p \o q \in Seq(Rows) /\ Sorted(p \o q) /\ Range(p \o q) = Range(p) \cup Range(q)
  <1>1. /\ p \o q \in Seq(Rows) /\ Len(p \o q) = Len(p) + Len(q)
        /\ \A i \in 1..Len(p) + Len(q) : (p \o q)[i] = IF i <= Len(p) THEN p[i] ELSE q[i - Len(p)]
        /\ Len(p) \in Nat /\ Len(q) \in Nat
        /\ DOMAIN p = 1..Len(p) /\ DOMAIN q = 1..Len(q)
    BY ConcatProperties, LenProperties
  <1>2. ASSUME NEW i \in 1..Len(p) + Len(q), NEW j \in 1..Len(p) + Len(q), i < j
        PROVE  MayPrecede((p \o q)[i], (p \o q)[j])
    <2>1. CASE j <= Len(p)
      BY <1>1, <1>2, <2>1 DEF Sorted
    <2>2. CASE i > Len(p)
      <3>1. i - Len(p) \in 1..Len(q) /\ j - Len(p) \in 1..Len(q) /\ i - Len(p) < j - Len(p)
        BY <1>1, <1>2, <2>2
      <3>. QED
        BY <1>1, <1>2, <2>2, <3>1 DEF Sorted
    <2>3. CASE i <= Len(p) /\ j > Len(p)
      <3>1. p[i] \in Range(p) /\ q[j - Len(p)] \in Range(q)
        BY <1>1, <1>2, <2>3 DEF Range
      <3>. QED
        BY <1>1, <1>2, <2>3, <3>1
    <2>. QED
      BY <1>1, <2>1, <2>2, <2>3
  <1>3. Range(p \o q) = Range(p) \cup Range(q)
    BY RangeConcatenation
  <1>. QED
    BY <1>1, <1>2, <1>3 DEF Sorted

\* A route of one row.
LEMMA Single ==
    ASSUME NEW row \in Rows
    PROVE  <<row>> \in Seq(Rows) /\ Sorted(<<row>>) /\ Range(<<row>>) = {row}
  BY DEF Sorted, Range

\* The members of a finite set in some order.
LEMMA Enumerated ==
    ASSUME NEW S, IsFiniteSet(S), NEW f \in Enumerations(S)
    PROVE  /\ f \in Seq(S) /\ f \in [1..Len(f) -> S] /\ Len(f) \in Nat
           /\ \A x \in S : \E i \in 1..Len(f) : f[i] = x
           /\ \A i, j \in 1..Len(f) : f[i] = f[j] => i = j
  <1>1. Cardinality(S) \in Nat
    BY FS_CardinalityType
  <1>2. /\ f \in [1..Cardinality(S) -> S]
        /\ \A x \in S : \E i \in 1..Cardinality(S) : f[i] = x
        /\ \A i, j \in 1..Cardinality(S) : f[i] = f[j] => i = j
    BY DEF Enumerations, Bijection, Injection, Surjection, IsInjective
  <1>3. f \in Seq(S) /\ Len(f) = Cardinality(S)
    BY <1>1, <1>2
  <1>. QED
    BY <1>1, <1>2, <1>3

LEMMA StockRoute ==
    ASSUME NEW items \in Items, NEW skus \in LockOrder(items)
    PROVE  /\ StockRows(skus) \in Seq(Rows) /\ Sorted(StockRows(skus))
           /\ Range(StockRows(skus)) = {StockRow(s) : s \in Listed(items)}
  <1>1. IsFiniteSet(Listed(items))
    BY InventoryAssumption, FS_Subset DEF Listed
  <1>2. /\ skus \in [1..Len(skus) -> Listed(items)] /\ Len(skus) \in Nat
        /\ \A s \in Listed(items) : \E i \in 1..Len(skus) : skus[i] = s
    BY <1>1, Enumerated DEF LockOrder
  <1>3. \A i, j \in 1..Len(skus) : i < j => Rank[skus[i]] < Rank[skus[j]]
    BY <1>2 DEF LockOrder
  <1>4. Listed(items) \subseteq Sku
    BY DEF Listed
  <1>5. StockRows(skus) \in [1..Len(skus) -> Rows]
    BY <1>2, <1>4 DEF StockRows, Rows
  <1>6. StockRows(skus) \in Seq(Rows) /\ Len(StockRows(skus)) = Len(skus)
    BY <1>2, <1>5
  <1>7. ASSUME NEW i \in 1..Len(skus), NEW j \in 1..Len(skus), i < j
        PROVE  MayPrecede(StockRow(skus[i]), StockRow(skus[j]))
    <2>1. Rank[skus[i]] < Rank[skus[j]] /\ Rank[skus[i]] \in Nat
      BY <1>2, <1>3, <1>4, <1>7, InventoryTxAssumption
    <2>. QED
      BY <2>1, RowsDiffer DEF MayPrecede
  <1>8. Sorted(StockRows(skus))
    BY <1>2, <1>6, <1>7 DEF Sorted, StockRows
  <1>9. Range(StockRows(skus)) = {StockRow(s) : s \in Listed(items)}
    BY <1>2 DEF StockRows, Range
  <1>. QED
    BY <1>6, <1>8, <1>9

LEMMA ParentRoute ==
    ASSUME NEW items \in Items, NEW ps \in Enumerations(Parents(items))
    PROVE  LET parents == [i \in DOMAIN ps |-> ProductRow(ps[i])]
           IN  /\ parents \in Seq(Rows) /\ Sorted(parents)
               /\ \A row \in Range(parents) : row[1] = "product"
  <1>. DEFINE parents == [i \in DOMAIN ps |-> ProductRow(ps[i])]
  <1>1. IsFiniteSet(Listed(items)) /\ Listed(items) \subseteq Sku
    BY InventoryAssumption, FS_Subset DEF Listed
  <1>2. IsFiniteSet(Parents(items))
    <2>. DEFINE f == [s \in Listed(items) |-> ProductOf[s]]
    <2>1. f \in Surjection(Listed(items), Parents(items))
      BY DEF Surjection, Parents
    <2>. QED
      BY <1>1, <2>1, FS_Surjection
  <1>3. Parents(items) \subseteq Product
    BY <1>1, InventoryAssumption DEF Parents
  <1>4. /\ ps \in [1..Len(ps) -> Product] /\ Len(ps) \in Nat
        /\ \A i, j \in 1..Len(ps) : ps[i] = ps[j] => i = j
    BY <1>2, <1>3, Enumerated
  <1>5. parents \in [1..Len(ps) -> Rows]
    BY <1>4 DEF Rows
  <1>6. parents \in Seq(Rows) /\ Len(parents) = Len(ps)
    BY <1>4, <1>5
  <1>7. \A i \in 1..Len(ps) : parents[i] = ProductRow(ps[i])
    BY <1>4
  <1>8. Sorted(parents)
    <2>. SUFFICES ASSUME NEW i \in 1..Len(ps), NEW j \in 1..Len(ps), i < j
                  PROVE  MayPrecede(parents[i], parents[j])
      BY <1>6 DEF Sorted
    <2>1. ps[i] # ps[j]
      BY <1>4
    <2>. QED
      BY <1>7, <2>1, RowsDiffer DEF MayPrecede
  <1>9. \A row \in Range(parents) : row[1] = "product"
    BY <1>4, <1>7, RowsDiffer DEF Range
  <1>. QED
    BY <1>6, <1>8, <1>9

\* CreateReservation's route.
LEMMA ReserveRoute ==
    ASSUME NEW items \in Items, NEW route \in ReserveRoutes(items)
    PROVE  /\ route \in Seq(Rows) /\ Sorted(route)
           /\ \A s \in Listed(items) : StockRow(s) \in Range(route)
           /\ \A row \in Range(route) : row[1] # "product"
  <1>1. PICK skus \in LockOrder(items) : route = StockRows(skus) \o <<SequenceRow>>
    BY DEF ReserveRoutes
  <1>2. /\ StockRows(skus) \in Seq(Rows) /\ Sorted(StockRows(skus))
        /\ Range(StockRows(skus)) = {StockRow(s) : s \in Listed(items)}
    BY StockRoute
  <1>3. SequenceRow \in Rows
    BY DEF Rows
  <1>4. \A a \in Range(StockRows(skus)) : MayPrecede(a, SequenceRow)
    BY <1>2, RowsDiffer DEF MayPrecede
  <1>5. /\ <<SequenceRow>> \in Seq(Rows) /\ Sorted(<<SequenceRow>>)
        /\ Range(<<SequenceRow>>) = {SequenceRow}
    BY <1>3, Single
  <1>6. /\ route \in Seq(Rows) /\ Sorted(route)
        /\ Range(route) = Range(StockRows(skus)) \cup {SequenceRow}
    <2>1. \A a \in Range(StockRows(skus)), b \in Range(<<SequenceRow>>) : MayPrecede(a, b)
      BY <1>4, <1>5
    <2>. QED
      BY <1>1, <1>2, <1>5, <2>1, Joined
  <1>. QED
    BY <1>2, <1>6, RowsDiffer

\* FinalizeReservation's route.
LEMMA FinalizeRoute ==
    ASSUME NEW items \in Items, NEW r \in ReservationId, NEW op,
           NEW route \in FinalizeRoutes(op, r, items)
    PROVE  /\ route \in Seq(Rows) /\ Sorted(route)
           /\ ReservationRow(r) \in Range(route)
           /\ \A s \in Listed(items) : StockRow(s) \in Range(route)
           /\ \A row \in Range(route) : row[1] = "product" => op = "commit"
  <1>. DEFINE Last == IF op = "commit"
                        THEN {[i \in DOMAIN ps |-> ProductRow(ps[i])] :
                                  ps \in Enumerations(Parents(items))}
                        ELSE {<<>>}
  <1>1. PICK skus \in LockOrder(items), parents \in Last :
            route = <<ReservationRow(r)>> \o StockRows(skus) \o parents
    BY DEF FinalizeRoutes
  <1>2. /\ StockRows(skus) \in Seq(Rows) /\ Sorted(StockRows(skus))
        /\ Range(StockRows(skus)) = {StockRow(s) : s \in Listed(items)}
    BY StockRoute
  <1>3. /\ parents \in Seq(Rows) /\ Sorted(parents)
        /\ \A row \in Range(parents) : row[1] = "product" /\ op = "commit"
    <2>1. CASE op = "commit"
      BY <2>1, ParentRoute
    <2>2. CASE op # "commit"
      BY <2>2, EmptySeq DEF Sorted, Range
    <2>. QED
      BY <2>1, <2>2
  <1>4. /\ <<ReservationRow(r)>> \in Seq(Rows) /\ Sorted(<<ReservationRow(r)>>)
        /\ Range(<<ReservationRow(r)>>) = {ReservationRow(r)}
    <2>1. ReservationRow(r) \in Rows
      BY DEF Rows
    <2>. QED
      BY <2>1, Single
  <1>5. \A b \in Range(StockRows(skus)) : MayPrecede(ReservationRow(r), b)
    BY <1>2, RowsDiffer DEF MayPrecede
  <1>. DEFINE first == <<ReservationRow(r)>> \o StockRows(skus)
  <1>6. /\ first \in Seq(Rows) /\ Sorted(first)
        /\ Range(first) = {ReservationRow(r)} \cup Range(StockRows(skus))
    BY <1>2, <1>4, <1>5, Joined
  <1>7. \A a \in Range(first), b \in Range(parents) : MayPrecede(a, b)
    <2>1. \A a \in Range(first) : a[1] \in {"reservation", "stock"}
      BY <1>2, <1>6, RowsDiffer
    <2>. QED
      BY <1>3, <2>1 DEF MayPrecede
  <1>. HIDE DEF first
  <1>8. /\ first \o parents \in Seq(Rows) /\ Sorted(first \o parents)
        /\ Range(first \o parents) = Range(first) \cup Range(parents)
    BY <1>3, <1>6, <1>7, Joined
  <1>9. route = first \o parents
    BY <1>1 DEF first
  <1>. QED
    BY <1>2, <1>3, <1>6, <1>8, <1>9, RowsDiffer

-----------------------------------------------------------------------------
(* What one transaction does to the others                                 *)

LEMMA RowNames ==
    ASSUME NEW row \in Rows
    PROVE  /\ row[1] = "stock" => row[2] \in Sku /\ row = StockRow(row[2])
           /\ row[1] = "reservation" => row[2] \in ReservationId /\ row = ReservationRow(row[2])
  <1>1. CASE \E s \in Sku : row = StockRow(s)
    BY <1>1, RowsDiffer
  <1>2. CASE \E r \in ReservationId : row = ReservationRow(r)
    BY <1>2, RowsDiffer
  <1>3. CASE \E p \in Product : row = ProductRow(p)
    BY <1>3, RowsDiffer
  <1>4. CASE row = SequenceRow
    BY <1>4, RowsDiffer
  <1>. QED
    BY <1>1, <1>2, <1>3, <1>4 DEF Rows

\* A step leaves transaction u, the rows it holds and the reservations' items alone.
Undisturbed(u) ==
    /\ tx'[u] = tx[u]
    /\ \A s \in DOMAIN stock : StockRow(s) \in tx[u].held
          => s \in DOMAIN stock' /\ stock'[s] = stock[s]
    /\ \A r \in DOMAIN reservations :
          /\ r \in DOMAIN reservations'
          /\ reservations'[r].items = reservations[r].items
          /\ ReservationRow(r) \in tx[u].held => reservations'[r].status = reservations[r].status

LEMMA StaysAsChecked ==
    ASSUME tx \in [Tx -> Transaction], NEW u \in Tx, Undisturbed(u),
           ClaimOK(u), RouteOK(u), \A row \in tx[u].held : Accepts(u, row)
    PROVE  ClaimOK(u)' /\ RouteOK(u)' /\ \A row \in tx'[u].held : Accepts(u, row)'
  <1>1. tx'[u] = tx[u]
    BY DEF Undisturbed
  <1>2. Wanted(u)' = Wanted(u)
    BY <1>1 DEF Wanted
  <1>3. ClaimOK(u)'
    BY <1>1, <1>2 DEF ClaimOK, Idle, Undisturbed
  <1>4. RouteOK(u)'
    BY <1>1, <1>2 DEF RouteOK
  <1>5. ASSUME NEW row \in tx[u].held PROVE Accepts(u, row)'
    <2>1. row \in Rows
      BY DEF Transaction
    <2>2. CASE row[1] = "reservation"
      <3>1. row = ReservationRow(row[2]) /\ IsActive(row[2])
        BY <2>1, <2>2, RowNames DEF Accepts
      <3>2. IsActive(row[2])'
        BY <3>1 DEF IsActive, Undisturbed
      <3>. QED
        BY <2>2, <3>2 DEF Accepts
    <2>3. CASE row[1] = "stock"
      <3>1. row = StockRow(row[2]) /\ row[2] \in DOMAIN stock
        BY <2>1, <2>3, RowNames DEF Accepts
      <3>2. row[2] \in DOMAIN stock' /\ stock'[row[2]] = stock[row[2]]
        BY <3>1 DEF Undisturbed
      <3>. QED
        BY <1>1, <2>3, <3>2 DEF Accepts, Available
    <2>4. CASE row[1] \notin {"reservation", "stock"}
      BY <2>4 DEF Accepts
    <2>. QED
      BY <2>2, <2>3, <2>4
  <1>. QED
    BY <1>1, <1>3, <1>4, <1>5

\* An idle connection claims nothing.
LEMMA IdleIsOK ==
    ASSUME NEW t \in Tx
    PROVE  /\ tx[t] = NoTx => ClaimOK(t) /\ RouteOK(t) /\ HeldOK(t)
           /\ tx'[t] = NoTx => ClaimOK(t)' /\ RouteOK(t)'
  <1>1. NoTx.op = "none" /\ NoTx.route = <<>> /\ NoTx.held = {} /\ NoTx.items = [s \in Sku |-> 0]
    BY DEF NoTx
  <1>2. Range(<<>>) = {}
    BY DEF Range
  <1>3. (tx[t] = NoTx => Wanted(t) = {}) /\ (tx'[t] = NoTx => Wanted(t)' = {})
    BY <1>1, <1>2 DEF Wanted
  <1>4. Listed(NoTx.items) = {}
    BY <1>1 DEF Listed
  <1>5. Sorted(<<>>)
    BY EmptySeq DEF Sorted
  <1>. QED
    BY <1>1, <1>2, <1>3, <1>4, <1>5 DEF ClaimOK, RouteOK, HeldOK, Idle

LEMMA NoTxType == NoTx \in Transaction
  BY InventoryAssumption, EmptySeq DEF NoTx, Transaction, Items

\* One transaction moves and the others are undisturbed: the invariant is kept if
\* it is kept for the one.
LEMMA OneMoves ==
    ASSUME LocksInv, NEW t \in Tx, NEW x \in Transaction, tx' = [tx EXCEPT ![t] = x],
           InventoryTypeOK', IdsOK',
           \A u \in Tx : u # t => Undisturbed(u) /\ x.held \cap tx[u].held = {},
           ClaimOK(t)', RouteOK(t)', \A row \in x.held : Accepts(t, row)'
    PROVE  LocksInv'
  <1>1. tx \in [Tx -> Transaction]
    BY DEF LocksInv
  <1>2. tx'[t] = x /\ tx' \in [Tx -> Transaction] /\ \A u \in Tx : u # t => tx'[u] = tx[u]
    BY <1>1
  <1>3. ASSUME NEW u \in Tx, u # t
        PROVE  ClaimOK(u)' /\ RouteOK(u)' /\ \A row \in tx'[u].held : Accepts(u, row)'
    BY <1>1, <1>3, StaysAsChecked DEF LocksInv, HeldOK
  <1>4. \A u, v \in Tx : u # v => tx'[u].held \cap tx'[v].held = {}
    BY <1>2 DEF LocksInv, HeldOK
  <1>5. \A u \in Tx : ClaimOK(u)' /\ RouteOK(u)' /\ HeldOK(u)'
    BY <1>2, <1>3, <1>4 DEF HeldOK
  <1>. QED
    BY <1>2, <1>5 DEF LocksInv

\* The transaction ends: all the others are undisturbed.
LEMMA OneEnds ==
    ASSUME LocksInv, NEW t \in Tx, tx' = [tx EXCEPT ![t] = NoTx],
           InventoryTypeOK', IdsOK', \A u \in Tx : u # t => Undisturbed(u)
    PROVE  LocksInv'
  <1>1. tx'[t] = NoTx
    BY DEF LocksInv
  <1>2. ClaimOK(t)' /\ RouteOK(t)'
    BY <1>1, IdleIsOK
  <1>3. NoTx.held = {}
    BY DEF NoTx
  <1>. QED
    BY <1>2, <1>3, NoTxType, OneMoves

\* No connection moves and all are undisturbed.
LEMMA NoneMoves ==
    ASSUME LocksInv, tx' = tx, InventoryTypeOK', IdsOK', \A u \in Tx : Undisturbed(u)
    PROVE  LocksInv'
  <1>1. ASSUME NEW u \in Tx
        PROVE  ClaimOK(u)' /\ RouteOK(u)' /\ \A row \in tx'[u].held : Accepts(u, row)'
    BY StaysAsChecked DEF LocksInv, HeldOK
  <1>2. \A u \in Tx : HeldOK(u)'
    BY <1>1 DEF LocksInv, HeldOK
  <1>. QED
    BY <1>1, <1>2 DEF LocksInv

\* A step that writes no committed row disturbs nobody else.
LEMMA NothingWritten ==
    ASSUME LocksInv, NEW t \in Tx, NEW x, tx' = [tx EXCEPT ![t] = x], UNCHANGED inventoryVars
    PROVE  /\ InventoryTypeOK' /\ IdsOK' /\ tx'[t] = x
           /\ \A u \in Tx : u # t => Undisturbed(u)
  <1>1. InventoryTypeOK' /\ IdsOK'
    BY DEF LocksInv, InventoryTypeOK, IdsOK, inventoryVars
  <1>2. tx'[t] = x /\ \A u \in Tx : u # t => tx'[u] = tx[u]
    BY DEF LocksInv
  <1>3. \A u \in Tx : u # t => Undisturbed(u)
    BY <1>2 DEF Undisturbed, inventoryVars
  <1>. QED
    BY <1>1, <1>2, <1>3

-----------------------------------------------------------------------------
(* One lemma per action: the invariant is kept                             *)

LEMMA BeginReserveKeepsInv ==
    ASSUME LocksInv, NEW t \in Tx, NEW o \in Order, NEW items \in Items,
           BeginReserve(t, o, items)
    PROVE  LocksInv'
  <1>1. PICK route \in ReserveRoutes(items) :
            tx' = [tx EXCEPT ![t] = [NoTx EXCEPT !.op = "reserve", !.order = o,
                                                 !.items = items, !.route = route]]
    BY DEF BeginReserve
  <1>. DEFINE x == [NoTx EXCEPT !.op = "reserve", !.order = o, !.items = items, !.route = route]
  <1>2. /\ route \in Seq(Rows) /\ Sorted(route)
        /\ \A s \in Listed(items) : StockRow(s) \in Range(route)
        /\ \A row \in Range(route) : row[1] # "product"
    BY ReserveRoute
  <1>3. /\ x.op = "reserve" /\ x.order = o /\ x.items = items /\ x.route = route /\ x.held = {}
        /\ x \in Transaction
    BY <1>2, NoTxType DEF NoTx, Transaction
  <1>. HIDE DEF x
  <1>4. tx' = [tx EXCEPT ![t] = x]
    BY <1>1 DEF x
  <1>5. /\ InventoryTypeOK' /\ IdsOK' /\ tx'[t] = x
        /\ \A u \in Tx : u # t => Undisturbed(u)
    BY <1>4, NothingWritten DEF BeginReserve
  <1>6. Wanted(t)' = Range(route)
    BY <1>3, <1>5 DEF Wanted
  <1>7. ClaimOK(t)'
    BY <1>3, <1>5 DEF ClaimOK, Idle, BeginReserve
  <1>8. RouteOK(t)'
    BY <1>2, <1>3, <1>5, <1>6 DEF RouteOK
  <1>. QED
    BY <1>3, <1>4, <1>5, <1>7, <1>8, OneMoves

LEMMA BeginFinalizeKeepsInv ==
    ASSUME LocksInv, NEW t \in Tx, NEW op \in {"release", "commit"},
           NEW r \in ReservationId, BeginFinalize(t, op, r)
    PROVE  LocksInv'
  <1>. DEFINE items == reservations[r].items
  <1>1. r \in DOMAIN reservations /\ items \in Items
    BY DEF BeginFinalize, LocksInv, InventoryTypeOK, Reservation
  <1>2. PICK route \in FinalizeRoutes(op, r, items) :
            tx' = [tx EXCEPT ![t] = [NoTx EXCEPT !.op = op, !.rsv = r,
                                                 !.items = items, !.route = route]]
    BY DEF BeginFinalize
  <1>. DEFINE x == [NoTx EXCEPT !.op = op, !.rsv = r, !.items = items, !.route = route]
  <1>3. /\ route \in Seq(Rows) /\ Sorted(route) /\ ReservationRow(r) \in Range(route)
        /\ \A s \in Listed(items) : StockRow(s) \in Range(route)
        /\ \A row \in Range(route) : row[1] = "product" => op = "commit"
    BY <1>1, FinalizeRoute
  <1>4. /\ x.op = op /\ x.rsv = r /\ x.items = items /\ x.route = route /\ x.held = {}
        /\ x \in Transaction
    BY <1>1, <1>3, NoTxType DEF NoTx, Transaction
  <1>. HIDE DEF x
  <1>5. tx' = [tx EXCEPT ![t] = x]
    BY <1>2 DEF x
  <1>6. /\ InventoryTypeOK' /\ IdsOK' /\ tx'[t] = x
        /\ \A u \in Tx : u # t => Undisturbed(u)
    BY <1>5, NothingWritten DEF BeginFinalize
  <1>7. Wanted(t)' = Range(route)
    BY <1>4, <1>6 DEF Wanted
  <1>8. ClaimOK(t)'
    <2>1. reservations' = reservations
      BY DEF BeginFinalize, inventoryVars
    <2>. QED
      BY <1>1, <1>3, <1>4, <1>6, <1>7, <2>1 DEF ClaimOK, Idle
  <1>9. RouteOK(t)'
    BY <1>3, <1>4, <1>6, <1>7 DEF RouteOK
  <1>. QED
    BY <1>4, <1>5, <1>6, <1>8, <1>9, OneMoves

LEMMA LockKeepsInv ==
    ASSUME LocksInv, NEW t \in Tx, Lock(t)
    PROVE  LocksInv'
  <1>. DEFINE row == Head(tx[t].route)
  <1>1. UNCHANGED inventoryVars /\ tx[t] \in Transaction
    BY DEF Lock, LocksInv
  <1>2. CASE ~Accepts(t, row)
    <2>1. tx' = [tx EXCEPT ![t] = NoTx]
      BY <1>2 DEF Lock
    <2>. QED
      BY <1>1, <2>1, NothingWritten, OneEnds
  <1>3. CASE Accepts(t, row)
    <2>. DEFINE x == [tx[t] EXCEPT !.held = @ \cup {row}, !.route = Tail(@)]
    <2>1. tx' = [tx EXCEPT ![t] = x]
      BY <1>3 DEF Lock
    <2>2. /\ row \in Rows /\ Tail(tx[t].route) \in Seq(Rows) /\ Sorted(Tail(tx[t].route))
          /\ Range(tx[t].route) = {row} \cup Range(Tail(tx[t].route))
          /\ \A b \in Range(Tail(tx[t].route)) : MayPrecede(row, b)
      BY <1>1, TakeFirst DEF Lock, LocksInv, RouteOK, Transaction
    <2>3. /\ x \in Transaction /\ x.op = tx[t].op /\ x.rsv = tx[t].rsv /\ x.order = tx[t].order
          /\ x.items = tx[t].items /\ x.held = tx[t].held \cup {row}
          /\ x.route = Tail(tx[t].route)
      BY <1>1, <2>2 DEF Transaction
    <2>. HIDE DEF x
    <2>4. /\ InventoryTypeOK' /\ IdsOK' /\ tx'[t] = x
          /\ \A u \in Tx : u # t => Undisturbed(u)
      BY <1>1, <2>1, NothingWritten
    <2>5. Wanted(t)' = Wanted(t)
      BY <2>2, <2>3, <2>4 DEF Wanted
    <2>6. ~Idle(t)
      <3>1. NoTx.route = <<>> /\ tx[t].route # <<>>
        BY DEF NoTx, Lock
      <3>. QED
        BY <3>1 DEF LocksInv, ClaimOK
    <2>7. ClaimOK(t)'
      BY <1>1, <2>3, <2>4, <2>5, <2>6 DEF LocksInv, ClaimOK, Idle, inventoryVars
    <2>8. RouteOK(t)'
      BY <2>2, <2>3, <2>4, <2>5 DEF LocksInv, RouteOK
    <2>9. \A a \in x.held : Accepts(t, a)'
      <3>1. \A a \in x.held : Accepts(t, a)
        BY <1>3, <2>3 DEF LocksInv, HeldOK
      <3>. QED
        BY <1>1, <2>3, <2>4, <3>1 DEF Accepts, IsActive, Available, inventoryVars
    <2>10. \A u \in Tx : u # t => x.held \cap tx[u].held = {}
      BY <2>3 DEF LocksInv, HeldOK, Lock, Holder
    <2>. QED
      BY <2>1, <2>3, <2>4, <2>7, <2>8, <2>9, <2>10, OneMoves
  <1>. QED
    BY <1>2, <1>3

LEMMA RollbackKeepsInv ==
    ASSUME LocksInv, NEW t \in Tx, Rollback(t)
    PROVE  LocksInv'
  <1>1. tx' = [tx EXCEPT ![t] = NoTx] /\ UNCHANGED inventoryVars
    BY DEF Rollback
  <1>. QED
    BY <1>1, NothingWritten, OneEnds

\* A statement of its own writes one stock row that nobody holds, or adds one.
LEMMA EditKeepsInv ==
    ASSUME LocksInv, NEW s \in Sku, AddVariant(s) \/ Edit(s), InventoryTypeOK'
    PROVE  LocksInv'
  <1>1. tx' = tx /\ reservations' = reservations
    BY DEF AddVariant, CreateVariant, Edit, UpsertItem, AdjustStock
  <1>2. IdsOK'
    BY <1>1 DEF LocksInv, IdsOK
  <1>3. ASSUME NEW u \in Tx, NEW z \in DOMAIN stock, StockRow(z) \in tx[u].held
        PROVE  z \in DOMAIN stock' /\ stock'[z] = stock[z]
    <2>1. CASE AddVariant(s)
      BY <1>3, <2>1 DEF AddVariant, CreateVariant
    <2>2. CASE Edit(s)
      <3>1. StockRow(s) \notin tx[u].held
        BY <2>2 DEF Edit, Holder
      <3>2. PICK q : stock' = [stock EXCEPT ![s].quantity = q]
        BY <2>2 DEF Edit, UpsertItem, AdjustStock, SetQuantity
      <3>. QED
        BY <1>3, <3>1, <3>2
    <2>. QED
      BY <2>1, <2>2
  <1>4. \A u \in Tx : Undisturbed(u)
    BY <1>1, <1>3 DEF Undisturbed
  <1>. QED
    BY <1>1, <1>2, <1>4, NoneMoves DEF LocksInv

\* A transaction with no row left to lock holds those it wanted.
LEMMA AllLocked ==
    ASSUME LocksInv, NEW t \in Tx, ~Idle(t), tx[t].route = <<>>
    PROVE  /\ tx[t].items \in Items
           /\ \A s \in Sku : tx[t].items[s] > 0 => StockRow(s) \in tx[t].held /\ Accepts(t, StockRow(s))
           /\ tx[t].op \in {"release", "commit"} =>
                 /\ tx[t].rsv \in DOMAIN reservations /\ IsActive(tx[t].rsv)
                 /\ tx[t].items = reservations[tx[t].rsv].items
                 /\ ReservationRow(tx[t].rsv) \in tx[t].held
  <1>1. Wanted(t) = tx[t].held
    BY DEF Wanted, Range
  <1>2. tx[t].items \in Items
    BY DEF LocksInv, Transaction
  <1>3. \A s \in Sku : tx[t].items[s] > 0 => StockRow(s) \in tx[t].held /\ Accepts(t, StockRow(s))
    BY <1>1 DEF LocksInv, RouteOK, HeldOK, Listed
  <1>4. ASSUME tx[t].op \in {"release", "commit"}
        PROVE  /\ tx[t].rsv \in DOMAIN reservations /\ IsActive(tx[t].rsv)
               /\ tx[t].items = reservations[tx[t].rsv].items
               /\ ReservationRow(tx[t].rsv) \in tx[t].held
    <2>1. /\ tx[t].rsv \in DOMAIN reservations
          /\ tx[t].items = reservations[tx[t].rsv].items
          /\ ReservationRow(tx[t].rsv) \in tx[t].held
      BY <1>1, <1>4 DEF LocksInv, ClaimOK
    <2>2. Accepts(t, ReservationRow(tx[t].rsv))
      BY <2>1 DEF LocksInv, HeldOK
    <2>. QED
      BY <2>1, <2>2, RowsDiffer DEF Accepts
  <1>. QED
    BY <1>2, <1>3, <1>4

\* CreateReservation's commit has the effect of Reserve.
LEMMA CommitReserveIsReserve ==
    ASSUME LocksInv, NEW t \in Tx, CommitReserve(t)
    PROVE  \E r \in NextReservationId : Reserve(r, tx[t].order, tx[t].items)
  <1>1. PICK r \in NextReservationId :
            Apply(t, [x \in DOMAIN reservations \cup {r} |->
                        IF x = r
                          THEN [order |-> tx[t].order, items |-> tx[t].items,
                                status |-> "active"]
                          ELSE reservations[x]],
                  "active")
    BY DEF CommitReserve
  <1>2. tx[t].op = "reserve" /\ tx[t].route = <<>> /\ ~Idle(t)
    BY DEF CommitReserve, Idle
  <1>3. /\ tx[t].items \in Items
        /\ \A s \in Sku : tx[t].items[s] > 0 => StockRow(s) \in tx[t].held /\ Accepts(t, StockRow(s))
    BY <1>2, AllLocked
  <1>4. HasStockFor(tx[t].items)
    BY <1>2, <1>3, RowsDiffer DEF HasStockFor, Accepts
  <1>5. r \notin DOMAIN reservations
    <2>1. Cardinality(DOMAIN reservations) \in Nat
      <3>1. IsFiniteSet(DOMAIN reservations)
        BY InventoryAssumption, FS_Subset DEF LocksInv, InventoryTypeOK
      <3>. QED
        BY <3>1, FS_CardinalityType
    <2>2. r = Cardinality(DOMAIN reservations) + 1
      BY DEF NextReservationId
    <2>. QED
      BY <2>1, <2>2 DEF LocksInv, IdsOK
  <1>6. \E s \in Sku : tx[t].items[s] > 0
    BY <1>2 DEF LocksInv, ClaimOK, Listed
  <1>7. stock' = [s \in DOMAIN stock |-> [stock[s] EXCEPT !.reserved = @ + tx[t].items[s]]]
    BY <1>1 DEF Apply
  <1>8. sold' = sold
    BY <1>1 DEF Apply
  <1>. QED
    BY <1>1, <1>4, <1>5, <1>6, <1>7, <1>8 DEF Apply, Reserve

\* FinalizeReservation's commit has the effect of a release or of a shipment.
LEMMA CommitFinalizeIsClose ==
    ASSUME LocksInv, NEW t \in Tx
    PROVE  /\ CommitFinalize(t, "release", "released") => ReleaseReservation(tx[t].rsv)
           /\ CommitFinalize(t, "commit", "committed") => CommitReservation(tx[t].rsv)
  <1>1. ASSUME CommitFinalize(t, "release", "released")
        PROVE  ReleaseReservation(tx[t].rsv)
    <2>1. tx[t].op = "release" /\ tx[t].route = <<>> /\ ~Idle(t)
      BY <1>1 DEF CommitFinalize, Idle
    <2>2. IsActive(tx[t].rsv) /\ tx[t].items = reservations[tx[t].rsv].items
      BY <2>1, AllLocked
    <2>3. \A s \in Sku : tx[t].items[s] > 0 => Accepts(t, StockRow(s))
      BY <2>1, AllLocked
    <2>4. Backed(tx[t].items, FALSE)
      BY <2>1, <2>3, RowsDiffer DEF Backed, Accepts
    <2>. QED
      BY <1>1, <2>2, <2>4 DEF CommitFinalize, Apply, ReleaseReservation, Close
  <1>2. ASSUME CommitFinalize(t, "commit", "committed")
        PROVE  CommitReservation(tx[t].rsv)
    <2>1. tx[t].op = "commit" /\ tx[t].route = <<>> /\ ~Idle(t)
      BY <1>2 DEF CommitFinalize, Idle
    <2>2. IsActive(tx[t].rsv) /\ tx[t].items = reservations[tx[t].rsv].items
      BY <2>1, AllLocked
    <2>3. \A s \in Sku : tx[t].items[s] > 0 => Accepts(t, StockRow(s))
      BY <2>1, AllLocked
    <2>4. Backed(tx[t].items, TRUE)
      BY <2>1, <2>3, RowsDiffer DEF Backed, Accepts
    <2>. QED
      BY <1>2, <2>2, <2>4 DEF CommitFinalize, Apply, CommitReservation, Close
  <1>. QED
    BY <1>1, <1>2

\* What a commit writes, it has locked: it disturbs no other transaction.
LEMMA CommitDisturbsNobody ==
    ASSUME LocksInv, NEW t \in Tx, ~Idle(t), tx[t].route = <<>>, NEW rsv,
           NEW status \in {"active", "released", "committed"}, Apply(t, rsv, status),
           NEW u \in Tx, u # t,
           \A r \in DOMAIN reservations :
              /\ r \in DOMAIN rsv /\ rsv[r].items = reservations[r].items
              /\ ReservationRow(r) \notin tx[t].held => rsv[r].status = reservations[r].status
    PROVE  Undisturbed(u)
  <1>1. tx'[u] = tx[u]
    BY DEF Apply, LocksInv
  <1>2. tx[t].held \cap tx[u].held = {}
    BY DEF LocksInv, HeldOK
  <1>3. ASSUME NEW s \in DOMAIN stock, StockRow(s) \in tx[u].held
        PROVE  s \in DOMAIN stock' /\ stock'[s] = stock[s]
    <2>1. s \in Sku /\ StockRow(s) \notin tx[t].held
      BY <1>2, <1>3 DEF LocksInv, InventoryTypeOK
    <2>2. tx[t].items[s] = 0
      BY <2>1, AllLocked, InventoryAssumption DEF Items
    <2>3. stock[s] \in Level
      BY DEF LocksInv, InventoryTypeOK
    <2>4. stock[s].quantity \in Nat /\ stock[s].reserved \in Nat
          /\ stock[s] = [quantity |-> stock[s].quantity, reserved |-> stock[s].reserved]
      BY <2>3, InventoryAssumption DEF Level
    <2>5. DOMAIN stock' = DOMAIN stock
      BY DEF Apply
    <2>6. CASE status = "active"
      <3>1. stock'[s] = [stock[s] EXCEPT !.reserved = @ + tx[t].items[s]]
        BY <2>6 DEF Apply
      <3>. QED
        BY <2>2, <2>4, <2>5, <3>1
    <2>7. CASE status = "released"
      <3>1. stock'[s] = [stock[s] EXCEPT !.reserved = @ - tx[t].items[s]]
        BY <2>7 DEF Apply
      <3>. QED
        BY <2>2, <2>4, <2>5, <3>1
    <2>8. CASE status = "committed"
      <3>1. stock'[s] = [quantity |-> stock[s].quantity - tx[t].items[s],
                         reserved |-> stock[s].reserved - tx[t].items[s]]
        BY <2>8 DEF Apply
      <3>. QED
        BY <2>2, <2>4, <2>5, <3>1
    <2>. QED
      BY <2>6, <2>7, <2>8
  <1>4. reservations' = rsv
    BY DEF Apply
  <1>. QED
    BY <1>1, <1>2, <1>3, <1>4 DEF Undisturbed

LEMMA CommitReserveKeepsInv ==
    ASSUME LocksInv, NEW t \in Tx, CommitReserve(t), InventoryTypeOK'
    PROVE  LocksInv'
  <1>1. tx[t].op = "reserve" /\ tx[t].route = <<>> /\ ~Idle(t)
    BY DEF CommitReserve, Idle
  <1>2. PICK r \in NextReservationId : Reserve(r, tx[t].order, tx[t].items)
    BY CommitReserveIsReserve
  <1>3. PICK q \in NextReservationId :
            Apply(t, [x \in DOMAIN reservations \cup {q} |->
                        IF x = q
                          THEN [order |-> tx[t].order, items |-> tx[t].items,
                                status |-> "active"]
                          ELSE reservations[x]],
                  "active")
    BY DEF CommitReserve
  <1>4. q = r /\ q = Cardinality(DOMAIN reservations) + 1 /\ q \notin DOMAIN reservations
    BY <1>2 DEF NextReservationId, Reserve
  <1>. DEFINE rsv == [x \in DOMAIN reservations \cup {q} |->
                        IF x = q
                          THEN [order |-> tx[t].order, items |-> tx[t].items,
                                status |-> "active"]
                          ELSE reservations[x]]
  <1>5. /\ DOMAIN rsv = DOMAIN reservations \cup {q}
        /\ \A x \in DOMAIN reservations : rsv[x] = reservations[x]
    BY <1>4
  <1>. HIDE DEF rsv
  <1>6. Apply(t, rsv, "active")
    BY <1>3 DEF rsv
  <1>7. \A u \in Tx : u # t => Undisturbed(u)
    BY <1>1, <1>5, <1>6, CommitDisturbsNobody
  <1>8. IdsOK'
    <2>1. IsFiniteSet(DOMAIN reservations)
      BY InventoryAssumption, FS_Subset DEF LocksInv, InventoryTypeOK
    <2>2. /\ Cardinality(DOMAIN reservations) \in Nat
          /\ Cardinality(DOMAIN reservations \cup {q}) = Cardinality(DOMAIN reservations) + 1
      BY <1>4, <2>1, FS_AddElement, FS_CardinalityType
    <2>3. DOMAIN reservations' = DOMAIN reservations \cup {q}
      BY <1>5, <1>6 DEF Apply
    <2>4. DOMAIN reservations \subseteq 1..Cardinality(DOMAIN reservations)
      BY DEF LocksInv, IdsOK
    <2>. QED
      BY <1>4, <2>2, <2>3, <2>4 DEF IdsOK
  <1>. QED
    BY <1>6, <1>7, <1>8, OneEnds DEF Apply

LEMMA CommitFinalizeKeepsInv ==
    ASSUME LocksInv, NEW t \in Tx, NEW op \in {"release", "commit"},
           NEW status \in {"released", "committed"}, CommitFinalize(t, op, status), InventoryTypeOK'
    PROVE  LocksInv'
  <1>1. tx[t].op = op /\ tx[t].route = <<>> /\ ~Idle(t)
    BY DEF CommitFinalize, Idle
  <1>2. tx[t].rsv \in DOMAIN reservations /\ ReservationRow(tx[t].rsv) \in tx[t].held
    BY <1>1, AllLocked
  <1>. DEFINE rsv == [reservations EXCEPT ![tx[t].rsv].status = status]
  <1>3. /\ Apply(t, rsv, status) /\ DOMAIN rsv = DOMAIN reservations
    BY DEF CommitFinalize
  <1>4. \A r \in DOMAIN reservations :
            /\ rsv[r].items = reservations[r].items
            /\ r # tx[t].rsv => rsv[r].status = reservations[r].status
    BY DEF LocksInv, InventoryTypeOK, Reservation
  <1>. HIDE DEF rsv
  <1>5. \A u \in Tx : u # t => Undisturbed(u)
    BY <1>1, <1>2, <1>3, <1>4, CommitDisturbsNobody
  <1>6. IdsOK'
    BY <1>3 DEF Apply, LocksInv, IdsOK
  <1>. QED
    BY <1>3, <1>5, <1>6, OneEnds DEF Apply

LEMMA InitHasInv == Init => LocksInv
  <1>. SUFFICES ASSUME Init PROVE LocksInv
    OBVIOUS
  <1>1. InventoryTypeOK
    BY InitType DEF Init
  <1>2. IdsOK
    BY DEF Init, InventoryInit, IdsOK
  <1>3. tx \in [Tx -> Transaction] /\ \A t \in Tx : tx[t] = NoTx
    BY NoTxType DEF Init
  <1>4. \A t \in Tx : ClaimOK(t) /\ RouteOK(t) /\ tx[t].held = {}
    BY <1>3, IdleIsOK DEF NoTx
  <1>. QED
    BY <1>1, <1>2, <1>3, <1>4 DEF LocksInv, HeldOK

LEMMA StutterKeepsInv ==
    ASSUME LocksInv, UNCHANGED vars
    PROVE  LocksInv'
  <1>1. \A u \in Tx : Undisturbed(u)
    BY DEF vars, Undisturbed
  <1>2. tx' = tx /\ InventoryTypeOK' /\ IdsOK'
    BY DEF vars, LocksInv, InventoryTypeOK, IdsOK
  <1>. QED
    BY <1>1, <1>2, NoneMoves

-----------------------------------------------------------------------------
(* The theorems                                                            *)

\* A step commits nothing, or has the effect of one operation of Inventory.
LEMMA StepIsInventoryStep ==
    ASSUME LocksInv, [Next]_vars
    PROVE  [InventoryNext]_inventoryVars
  <1>1. CASE UNCHANGED vars
    BY <1>1 DEF vars, inventoryVars
  <1>2. ASSUME NEW s \in Sku, AddVariant(s)
        PROVE  InventoryNext
    BY <1>2 DEF AddVariant, InventoryNext
  <1>3. ASSUME NEW s \in Sku, Edit(s)
        PROVE  InventoryNext
    BY <1>3 DEF Edit, InventoryNext
  <1>4. ASSUME NEW t \in Tx, NEW o \in Order, NEW items \in Items, BeginReserve(t, o, items)
        PROVE  UNCHANGED inventoryVars
    BY <1>4 DEF BeginReserve
  <1>5. ASSUME NEW t \in Tx, NEW op \in {"release", "commit"}, NEW r \in ReservationId,
               BeginFinalize(t, op, r)
        PROVE  UNCHANGED inventoryVars
    BY <1>5 DEF BeginFinalize
  <1>6. ASSUME NEW t \in Tx, Lock(t) \/ Rollback(t)
        PROVE  UNCHANGED inventoryVars
    BY <1>6 DEF Lock, Rollback
  <1>7. ASSUME NEW t \in Tx, CommitReserve(t)
        PROVE  InventoryNext
    <2>1. tx[t].order \in Order /\ tx[t].items \in Items
      BY <1>7 DEF CommitReserve, LocksInv, ClaimOK, Transaction
    <2>2. \E r \in ReservationId : Reserve(r, tx[t].order, tx[t].items)
      BY <1>7, CommitReserveIsReserve DEF NextReservationId
    <2>. QED
      BY <2>1, <2>2 DEF InventoryNext
  <1>8. ASSUME NEW t \in Tx,
               \/ CommitFinalize(t, "release", "released")
               \/ CommitFinalize(t, "commit", "committed")
        PROVE  InventoryNext
    <2>1. tx[t].rsv \in ReservationId
      BY <1>8 DEF CommitFinalize, LocksInv, ClaimOK, InventoryTypeOK
    <2>. QED
      BY <1>8, <2>1, CommitFinalizeIsClose DEF InventoryNext
  <1>. QED
    BY <1>1, <1>2, <1>3, <1>4, <1>5, <1>6, <1>7, <1>8 DEF Next

LEMMA NextKeepsInv ==
    ASSUME LocksInv, [Next]_vars
    PROVE  LocksInv'
  <1>1. InventoryTypeOK'
    BY StepIsInventoryStep, NextType DEF LocksInv
  <1>2. CASE UNCHANGED vars
    BY <1>2, StutterKeepsInv
  <1>3. CASE Next
    BY <1>1, <1>3, BeginReserveKeepsInv, BeginFinalizeKeepsInv, LockKeepsInv,
       CommitReserveKeepsInv, CommitFinalizeKeepsInv, RollbackKeepsInv, EditKeepsInv
    DEF Next
  <1>. QED
    BY <1>2, <1>3

\* Every transaction claims what stays put under it, locks in order the rows it will
\* write, and finds the rows it holds as it checked them.
THEOREM LocksInvHolds == Spec => []LocksInv
  <1>1. Init => LocksInv
    BY InitHasInv
  <1>2. LocksInv /\ [Next]_vars => LocksInv'
    BY NextKeepsInv
  <1>. QED
    BY <1>1, <1>2, PTL DEF Spec

\* The type invariant; a transaction never waits for a row it holds.
THEOREM TypeOKHolds == Spec => []TypeOK
  <1>1. LocksInv => TypeOK
    <2>. SUFFICES ASSUME LocksInv PROVE TypeOK
      OBVIOUS
    <2>1. ASSUME NEW t \in Tx, NEW i \in DOMAIN tx[t].route
          PROVE  tx[t].route[i] \notin tx[t].held
      <3>1. tx[t].route[i] \in Range(tx[t].route)
        BY DEF Range
      <3>. QED
        BY <3>1 DEF LocksInv, RouteOK, MayPrecede
    <2>. QED
      BY <2>1 DEF LocksInv, Transaction, TypeOK
  <1>. QED
    BY <1>1, LocksInvHolds, PTL

\* Transactions that overlap in any way, wait, fail and are rolled back have the effect
\* of Inventory's operations one after another (inventory_store.go).
THEOREM TransactionsImplementInventory == Spec => ImplementsInventory
  <1>1. Init => InventoryInit
    BY DEF Init
  <1>2. LocksInv /\ [Next]_vars => [InventoryNext]_inventoryVars
    BY StepIsInventoryStep
  <1>. QED
    BY <1>1, <1>2, LocksInvHolds, PTL DEF Spec, ImplementsInventory, InventorySpec

\* The rows and the counters beside them agree however transactions overlap.
THEOREM TransactionsKeepStockSound == Spec => []StockIsSound
  <1>. QED
    BY TransactionsImplementInventory, StockIsSoundHolds, PTL DEF ImplementsInventory

LEMMA LeastNatural ==
    ASSUME NEW N \in SUBSET Nat, N # {}
    PROVE  \E x \in N : \A y \in N : x <= y
  <1>. DEFINE Less == {xy \in Nat \X Nat : xy[1] < xy[2]}
  <1>1. IsWellFoundedOn(Less, Nat)
    BY NatLessThanWellFounded DEF OpToRel
  <1>2. PICK x \in N : \A y \in N : ~(<<y, x>> \in Less)
    <2>. HIDE DEF Less
    <2>. QED
      BY <1>1, WFMin
  <1>3. ASSUME NEW y \in N PROVE x <= y
    <2>1. x \in Nat /\ y \in Nat
      OBVIOUS
    <2>2. ~(y < x)
      BY <1>2, <2>1
    <2>. QED
      BY <2>1, <2>2
  <1>. QED
    BY <1>3

\* Who waits for a holder that waits too, waits for an earlier row.
LEMMA WaitsForLater ==
    ASSUME LocksInv, NEW t \in Tx, NEW u \in Tx, NEW v \in Tx, WaitsFor(t, u), WaitsFor(u, v)
    PROVE  MayPrecede(Head(tx[t].route), Head(tx[u].route))
  <1>1. Head(tx[t].route) \in tx[u].held /\ tx[u].route # <<>>
    BY DEF WaitsFor, Holder
  <1>2. Head(tx[u].route) \in Range(tx[u].route)
    BY <1>1, TakeFirst DEF LocksInv, RouteOK, Transaction
  <1>. QED
    BY <1>1, <1>2 DEF LocksInv, RouteOK

\* Transactions that all wait for one another wait for parent products in the end: the
\* stock rows they wait for ascend.
LEMMA SomeWaitForParents ==
    ASSUME LocksInv, NEW T \in SUBSET Tx, Stuck(T)
    PROVE  \E t \in T : Head(tx[t].route)[1] = "product"
  <1>. SUFFICES ASSUME \A t \in T : Head(tx[t].route)[1] # "product"
                PROVE  FALSE
    OBVIOUS
  <1>. DEFINE row(t) == Head(tx[t].route)
              Above(t) == {s \in Sku : Rank[s] > Rank[row(t)[2]]}
              OnStock == {t \in T : row(t)[1] = "stock"}
              Heights == {Cardinality(Above(t)) : t \in OnStock}
  <1>1. ASSUME NEW t \in T
        PROVE  \E u \in T : MayPrecede(row(t), row(u)) /\ row(u)[1] # "product" /\ row(u) \in Rows
    <2>1. PICK u \in T : WaitsFor(t, u) /\ \E v \in T : WaitsFor(u, v)
      BY DEF Stuck
    <2>2. MayPrecede(row(t), row(u))
      BY <2>1, WaitsForLater
    <2>3. row(u) \in Rows
      <3>1. tx[u].route \in Seq(Rows) /\ tx[u].route # <<>>
        BY <2>1 DEF LocksInv, Transaction, WaitsFor
      <3>. QED
        BY <3>1, HeadTailProperties
    <2>. QED
      BY <2>2, <2>3
  <1>2. ASSUME NEW t \in T
        PROVE  \E u \in OnStock : MayPrecede(row(t), row(u)) /\ row(u)[2] \in Sku
    <2>1. PICK u \in T : MayPrecede(row(t), row(u)) /\ row(u)[1] # "product" /\ row(u) \in Rows
      BY <1>1
    <2>2. PICK v \in T : MayPrecede(row(u), row(v)) /\ row(v)[1] # "product"
      BY <1>1
    <2>3. row(u)[1] = "stock"
      BY <2>1, <2>2 DEF MayPrecede
    <2>. QED
      BY <2>1, <2>3, RowNames
  <1>3. \A t \in T : IsFiniteSet(Above(t)) /\ Cardinality(Above(t)) \in Nat
    <2>. SUFFICES ASSUME NEW t \in T PROVE IsFiniteSet(Above(t)) /\ Cardinality(Above(t)) \in Nat
      OBVIOUS
    <2>1. Above(t) \in SUBSET Sku
      OBVIOUS
    <2>. QED
      BY <2>1, InventoryAssumption, FS_Subset, FS_CardinalityType
  <1>4. Heights \in SUBSET Nat /\ Heights # {}
    <2>1. OnStock # {}
      BY <1>2 DEF Stuck
    <2>. QED
      BY <1>3, <2>1
  <1>5. PICK t \in OnStock : \A u \in OnStock : Cardinality(Above(t)) <= Cardinality(Above(u))
    <2>. HIDE DEF OnStock, Above
    <2>1. PICK x \in Heights : \A y \in Heights : x <= y
      <3>. HIDE DEF Heights
      <3>. QED
        BY <1>4, LeastNatural
    <2>. QED
      BY <2>1
  <1>6. PICK u \in OnStock : MayPrecede(row(t), row(u)) /\ row(u)[2] \in Sku
    BY <1>2
  <1>7. row(t)[2] \in Sku
    <2>1. row(t) \in Rows
      <3>1. tx[t].route \in Seq(Rows) /\ tx[t].route # <<>>
        BY DEF LocksInv, Transaction, Stuck, WaitsFor
      <3>. QED
        BY <3>1, HeadTailProperties
    <2>. QED
      BY <2>1, RowNames
  <1>8. /\ Rank[row(t)[2]] < Rank[row(u)[2]]
        /\ Rank[row(t)[2]] \in Nat /\ Rank[row(u)[2]] \in Nat /\ \A s \in Sku : Rank[s] \in Nat
    BY <1>6, <1>7, InventoryTxAssumption DEF MayPrecede
  <1>9. Above(u) \in SUBSET Above(t) /\ row(u)[2] \in Above(t) /\ row(u)[2] \notin Above(u)
    BY <1>6, <1>8
  <1>10. /\ Cardinality(Above(u)) <= Cardinality(Above(t))
         /\ Cardinality(Above(t)) = Cardinality(Above(u)) => Above(t) = Above(u)
    <2>. HIDE DEF Above
    <2>. QED
      BY <1>3, <1>9, FS_Subset
  <1>. QED
    <2>. HIDE DEF Above
    <2>. QED
      BY <1>3, <1>5, <1>9, <1>10

\* Only shipments can wait for each other in a cycle: CreateReservation and releases
\* lock stock rows by sku id, after at most one reservation (inventory_store.go).
THEOREM OnlyShipmentsDeadlockHolds == Spec => []OnlyShipmentsDeadlock
  <1>1. LocksInv => OnlyShipmentsDeadlock
    <2>. SUFFICES ASSUME LocksInv, NEW T \in SUBSET Tx, Stuck(T)
                  PROVE  \E U \in SUBSET T : Stuck(U) /\ \A t \in U : tx[t].op = "commit"
      BY DEF OnlyShipmentsDeadlock
    <2>. DEFINE U == {t \in T : Head(tx[t].route)[1] = "product"}
    <2>1. U # {}
      BY SomeWaitForParents
    <2>2. ASSUME NEW t \in U PROVE \E u \in U : WaitsFor(t, u)
      <3>1. PICK u \in T : WaitsFor(t, u) /\ \E v \in T : WaitsFor(u, v)
        BY DEF Stuck
      <3>2. MayPrecede(Head(tx[t].route), Head(tx[u].route))
        BY <3>1, WaitsForLater
      <3>3. Head(tx[u].route)[1] = "product"
        BY <3>2 DEF MayPrecede
      <3>. QED
        BY <3>1, <3>3
    <2>3. ASSUME NEW t \in U PROVE tx[t].op = "commit"
      <3>1. tx[t].route \in Seq(Rows) /\ tx[t].route # <<>> /\ Sorted(tx[t].route)
        BY DEF LocksInv, Transaction, RouteOK, Stuck, WaitsFor
      <3>2. Head(tx[t].route) \in Wanted(t)
        BY <3>1, TakeFirst DEF Wanted
      <3>. QED
        BY <3>2 DEF LocksInv, RouteOK
    <2>4. Stuck(U)
      BY <2>1, <2>2 DEF Stuck
    <2>. QED
      BY <2>3, <2>4
  <1>. QED
    BY <1>1, LocksInvHolds, PTL
=============================================================================
