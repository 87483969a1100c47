------------------------------ MODULE Catalog ------------------------------
(***************************************************************************)
(* Which rows of the product database exist: the masters that skus are     *)
(* composed of, products, variants and their stock rows.  A request is     *)
(* several statements; what another one changes between them, foreign keys *)
(* and unique indexes must catch.  A deleted product takes its stock rows  *)
(* along, also those that a reservation still holds.                       *)
(***************************************************************************)
EXTENDS Integers, FiniteSets

CONSTANTS
    Request,            \* requests in progress
    Product, Sku,       \* ids products and variants may draw
    Brand, Style, Color,\* codes of the masters (sizes and editions go as colors do)
    BrandOf,            \* the brand that a style belongs to
    MaxQuantity         \* largest stock level

CatalogAssumption ==
    /\ IsFiniteSet(Product) /\ IsFiniteSet(Sku) /\ IsFiniteSet(Request)
    /\ BrandOf \in [Style -> Brand] /\ MaxQuantity \in Nat

VARIABLES
    masters,    \* codes that have a row
    products,   \* the style of each product
    variants,   \* the product and color of each variant
    stock,      \* stock_items
    holds,      \* skus with an active reservation, and the product each was bought of
    drawn,      \* ids drawn so far; a drawn one never comes again
    req         \* what each request is doing

vars == <<masters, products, variants, stock, holds, drawn, req>>

Idle == [pc |-> "idle", op |-> "none", product |-> "none", code |-> "none",
         colors |-> {}, locked |-> {}]

Master == Brand \cup Style \cup Color

Without(f, S) == [x \in DOMAIN f \ S |-> f[x]]
With(f, x, y) == [z \in DOMAIN f \cup {x} |-> IF z = x THEN y ELSE f[z]]

VariantsOf(p) == {s \in DOMAIN variants : variants[s].product = p}
Locked == UNION {req[q].locked : q \in Request}

\* A new shop, its masters seeded or still to be entered.
Init ==
    /\ masters \in {{}, Master}
    /\ products = [p \in {} |-> {}] /\ variants = [s \in {} |-> {}] /\ stock = [s \in {} |-> {}]
    /\ holds = {} /\ drawn = {}
    /\ req = [q \in Request |-> Idle]

Step(q, r) == req' = [req EXCEPT ![q] = r]
Done(q) == Step(q, Idle)

-----------------------------------------------------------------------------
CreateMaster(m) ==
    /\ m \notin masters
    /\ m \in Style => BrandOf[m] \in masters
    /\ masters' = masters \cup {m}
    /\ UNCHANGED <<products, variants, stock, holds, drawn, req>>

\* The foreign keys that name the master.
InUse(m) ==
    \/ m \in Brand /\ \E st \in masters \cap Style : BrandOf[st] = m
    \/ \E p \in DOMAIN products : products[p] = m
    \/ \E s \in DOMAIN variants : variants[s].color = m

DeleteMaster(m) ==
    /\ m \in masters /\ ~InUse(m)
    /\ masters' = masters \ {m}
    /\ UNCHANGED <<products, variants, stock, holds, drawn, req>>

-----------------------------------------------------------------------------
HasMasters(st) == {st, BrandOf[st]} \subseteq masters

\* requireBrand and requireStyle.
CreateProduct(q) ==
    /\ req[q].pc = "idle"
    /\ \E p \in Product \ drawn, st \in Style, cs \in SUBSET Color :
          /\ HasMasters(st)
          /\ drawn' = drawn \cup {p}
          /\ Step(q, [Idle EXCEPT !.pc = "product", !.op = "create", !.product = p,
                                  !.code = st, !.colors = cs])
    /\ UNCHANGED <<masters, products, variants, stock, holds>>

\* The schema's word on a new product: one per style, and its masters are there.
ProductFits(st) == HasMasters(st) /\ st \notin {products[p] : p \in DOMAIN products}

InsertProduct(q) ==
    /\ req[q].pc = "product"
    /\ ProductFits(req[q].code)
    /\ products' = With(products, req[q].product, req[q].code)
    /\ Step(q, [req[q] EXCEPT !.pc = IF req[q].colors = {} THEN "ensure" ELSE "variant"])
    /\ UNCHANGED <<masters, variants, stock, holds, drawn>>

\* A variant of an existing product.
CreateVariant(q) ==
    /\ req[q].pc = "idle"
    /\ \E p \in DOMAIN products, c \in Color :
          Step(q, [Idle EXCEPT !.pc = "variant", !.op = "variant", !.product = p, !.colors = {c}])
    /\ UNCHANGED <<masters, products, variants, stock, holds, drawn>>

\* The sku is composed of the product's style and the variant's color.
SkuTaken(p, c) ==
    \E s \in DOMAIN variants : variants[s].color = c /\ products[variants[s].product] = products[p]

\* parentSKUCodes, requireColor and nextVariantSKU, before the transaction.
ComposeSku(q) ==
    /\ req[q].pc = "variant" /\ req[q].product \in DOMAIN products
    /\ \E c \in req[q].colors :
          /\ c \in masters /\ ~SkuTaken(req[q].product, c)
          /\ Step(q, [req[q] EXCEPT !.pc = "insert", !.code = c])
    /\ UNCHANGED <<masters, products, variants, stock, holds, drawn>>

\* The schema gone wrong: what was looked up before is still so.
AsLookedUp(p, c) == p \in DOMAIN products /\ c \in Color

\* The schema's word on a new variant: its product and color are there, its sku is not.
VariantFits(p, c) == p \in DOMAIN products /\ c \in masters /\ ~SkuTaken(p, c)

\* InsertVariant gone wrong: the stock row comes with the first delivery.
InsertUntracked(q) ==
    /\ req[q].pc = "insert"
    /\ VariantFits(req[q].product, req[q].code)
    /\ \E s \in Sku \ drawn :
          /\ variants' = With(variants, s, [product |-> req[q].product, color |-> req[q].code])
          /\ drawn' = drawn \cup {s}
    /\ Step(q, [req[q] EXCEPT !.pc = "ensure", !.colors = @ \ {req[q].code}])
    /\ UNCHANGED <<masters, products, stock, holds>>

\* The transaction: the variant and its stock row.
InsertVariant(q) ==
    /\ req[q].pc = "insert"
    /\ VariantFits(req[q].product, req[q].code)
    /\ \E s \in Sku \ drawn :
          /\ variants' = With(variants, s, [product |-> req[q].product, color |-> req[q].code])
          /\ stock' = With(stock, s, [quantity |-> 0, reserved |-> 0])
          /\ drawn' = drawn \cup {s}
    /\ LET left == req[q].colors \ {req[q].code}
       IN  Step(q, [req[q] EXCEPT !.pc = IF left = {} THEN "ensure" ELSE "variant", !.colors = left])
    /\ UNCHANGED <<masters, products, holds>>

\* The service makes sure that each variant it has created has a stock row.
EnsureStockRow(q) ==
    /\ req[q].pc = "ensure" /\ req[q].product \in DOMAIN products
    /\ stock' = [s \in DOMAIN stock \cup VariantsOf(req[q].product) |->
                    IF s \in DOMAIN stock THEN stock[s] ELSE [quantity |-> 0, reserved |-> 0]]
    /\ Done(q)
    /\ UNCHANGED <<masters, products, variants, holds, drawn>>

\* An early return, an error of the database, or a failed publish: an open
\* transaction is rolled back, what was committed before stays.
Fail(q) ==
    /\ req[q].pc # "idle"
    /\ Done(q)
    /\ UNCHANGED <<masters, products, variants, stock, holds, drawn>>

-----------------------------------------------------------------------------
DeleteProduct(q) ==
    /\ req[q].pc = "idle"
    /\ \E p \in DOMAIN products :
          Step(q, [Idle EXCEPT !.pc = "delete stock", !.op = "delete", !.product = p])
    /\ UNCHANGED <<masters, products, variants, stock, holds, drawn>>

\* DELETE FROM stock_items locks the rows until the transaction ends.
DeleteStock(q) ==
    /\ req[q].pc = "delete stock"
    /\ LET rows == VariantsOf(req[q].product)
       IN  /\ rows \cap Locked = {}
           /\ Step(q, [req[q] EXCEPT !.pc = "delete product", !.locked = rows])
    /\ UNCHANGED <<masters, products, variants, stock, holds, drawn>>

\* DeleteProductRow gone wrong: the rows it found first are all that it deletes.
DeleteFoundRows(q) ==
    /\ req[q].pc = "delete product" /\ req[q].product \in DOMAIN products
    /\ products' = Without(products, {req[q].product})
    /\ variants' = Without(variants, req[q].locked)
    /\ stock' = Without(stock, req[q].locked)
    /\ Done(q)
    /\ UNCHANGED <<masters, holds, drawn>>

\* The variants go with the product, unless one has got a stock row meanwhile.
DeleteProductRow(q) ==
    /\ req[q].pc = "delete product" /\ req[q].product \in DOMAIN products
    /\ VariantsOf(req[q].product) \subseteq req[q].locked
    /\ products' = Without(products, {req[q].product})
    /\ variants' = Without(variants, req[q].locked)
    /\ stock' = Without(stock, req[q].locked)
    /\ Done(q)
    /\ UNCHANGED <<masters, holds, drawn>>

\* DeleteVariant gone wrong: it clears the stock row, as DeleteProduct does.
DeleteVariantAndStock(s) ==
    /\ s \in DOMAIN variants \ Locked
    /\ variants' = Without(variants, {s}) /\ stock' = Without(stock, {s})
    /\ UNCHANGED <<masters, products, holds, drawn, req>>

\* A stock row refuses it.
DeleteVariant(s) ==
    /\ s \in DOMAIN variants
    /\ variants' = IF s \in DOMAIN stock THEN variants ELSE Without(variants, {s})
    /\ UNCHANGED <<masters, products, stock, holds, drawn, req>>

-----------------------------------------------------------------------------
\* The inventory's side; Inventory has the whole of it.
SetQuantity(s) ==
    /\ s \in DOMAIN stock \ Locked
    /\ \E n \in stock[s].reserved..MaxQuantity : stock' = [stock EXCEPT ![s].quantity = n]
    /\ UNCHANGED <<masters, products, variants, holds, drawn, req>>

Reserve(s) ==
    /\ s \in DOMAIN stock \ Locked /\ s \notin {h.sku : h \in holds}
    /\ stock[s].reserved < stock[s].quantity
    /\ stock' = [stock EXCEPT ![s].reserved = @ + 1]
    /\ holds' = holds \cup {[sku |-> s, product |-> variants[s].product]}
    /\ UNCHANGED <<masters, products, variants, drawn, req>>

\* A reservation whose stock row is gone can be neither committed nor released.
FinalizeReservation(h, committing) ==
    /\ h.sku \in DOMAIN stock \ Locked
    /\ stock' = [stock EXCEPT ![h.sku] = [quantity |-> @.quantity - (IF committing THEN 1 ELSE 0),
                                          reserved |-> @.reserved - 1]]
    /\ holds' = holds \ {h}
    /\ UNCHANGED <<masters, products, variants, drawn, req>>

Next ==
    \/ \E m \in Master : CreateMaster(m) \/ DeleteMaster(m)
    \/ \E q \in Request : CreateProduct(q) \/ InsertProduct(q) \/ EnsureStockRow(q) \/ Fail(q)
    \/ \E q \in Request : CreateVariant(q) \/ ComposeSku(q) \/ InsertVariant(q)
    \/ \E q \in Request : DeleteProduct(q) \/ DeleteStock(q) \/ DeleteProductRow(q)
    \/ \E s \in Sku : DeleteVariant(s) \/ SetQuantity(s) \/ Reserve(s)
    \/ \E h \in holds, committing \in BOOLEAN : FinalizeReservation(h, committing)

Spec == Init /\ [][Next]_vars

-----------------------------------------------------------------------------
\* The tables hold what their columns may hold, and at most one hold a sku here.
TypeOK ==
    /\ masters \subseteq Master
    /\ DOMAIN products \subseteq drawn /\ \A p \in DOMAIN products : products[p] \in Style
    /\ DOMAIN variants \subseteq drawn /\ \A s \in DOMAIN variants : variants[s].color \in Color
    /\ \A s \in DOMAIN stock : 0 <= stock[s].reserved /\ stock[s].reserved <= stock[s].quantity
                               /\ stock[s].quantity <= MaxQuantity
    /\ \A h \in holds : h.sku \in Sku /\ h.product \in Product

\* Whatever two requests do between each other's statements (a product created
\* while its brand is deleted, a variant while its product is), no row names
\* one that is gone.
NothingDangles ==
    /\ \A p \in DOMAIN products : HasMasters(products[p])
    /\ \A st \in masters \cap Style : BrandOf[st] \in masters
    /\ \A s \in DOMAIN variants :
          variants[s].product \in DOMAIN products /\ variants[s].color \in masters
    /\ DOMAIN stock \subseteq DOMAIN variants

\* Orders can reserve a variant as soon as there is one: each has a stock row.
EveryVariantIsTracked == DOMAIN variants \subseteq DOMAIN stock

\* Two requests that find a sku free do not both use it: brand, style and color
\* name one variant.
OneVariantPerSku ==
    \A s, t \in DOMAIN variants :
        s # t => \/ variants[s].color # variants[t].color
                 \/ products[variants[s].product] # products[variants[t].product]

\* A reservation can be closed as long as its product has not been deleted; that
\* alone takes the stock row from under it.
HoldsLostOnlyToDeletes ==
    \A h \in holds : \/ h.sku \in DOMAIN stock /\ stock[h.sku].reserved = 1
                     \/ h.product \notin DOMAIN products
-----------------------------------------------------------------------------
(* The inductive invariant of the proofs: an id that a request has drawn for its       *)
(* product is nobody else's, no sku comes again, so the rows a deletion has locked are  *)
(* its product's, and a row has a unit reserved exactly if somebody holds one.         *)
RowsOK ==
    /\ masters \subseteq Master
    /\ DOMAIN products \subseteq Product \cap drawn
    /\ \A p \in DOMAIN products : products[p] \in Style
    /\ DOMAIN variants \subseteq Sku \cap drawn
    /\ \A s \in DOMAIN variants : variants[s] \in [product : Product, color : Color]
    /\ DOMAIN stock = DOMAIN variants
    /\ \A s \in DOMAIN stock :
          /\ stock[s] \in [quantity : 0..MaxQuantity, reserved : Nat]
          /\ stock[s].reserved <= stock[s].quantity
          /\ stock[s].reserved = IF s \in {h.sku : h \in holds} THEN 1 ELSE 0

HoldsOK ==
    /\ \A h \in holds :
          /\ h \in [sku : Sku \cap drawn, product : Product \cap drawn]
          /\ IF h.sku \in DOMAIN variants THEN h.product = variants[h.sku].product
             ELSE h.product \notin DOMAIN products
    /\ \A h, k \in holds : h.sku = k.sku => h = k

RequestOK(r) ==
    /\ DOMAIN r = DOMAIN Idle /\ r.colors \subseteq Color
    /\ r.pc # "idle" => r.product \in Product \cap drawn
    /\ r.pc = "product" => /\ r.code \in Style /\ r.product \notin DOMAIN products
                           /\ \A h \in holds : h.product # r.product
    /\ r.pc = "insert" => r.code \in Color
    /\ r.pc = "delete product" =>
          \A s \in r.locked : s \in drawn /\ (s \in DOMAIN variants => variants[s].product = r.product)

OwnProduct ==
    \A p, q \in Request :
        req[p].pc = "product" /\ req[q].pc = "product" /\ req[p].product = req[q].product => p = q

CatalogInv ==
    /\ RowsOK /\ HoldsOK /\ NothingDangles /\ OneVariantPerSku
    /\ DOMAIN req = Request /\ \A q \in Request : RequestOK(req[q])
    /\ OwnProduct
=============================================================================
