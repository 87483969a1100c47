-------------------------------- MODULE Cart --------------------------------
(***************************************************************************)
(* The cart service: its HTTP handlers, the checks of a line against the   *)
(* product and inventory services, and the Postgres transactions that save *)
(* it, one statement and one row lock at a time.                           *)
(*                                                                         *)
(* ReplaceItems, UpsertItem and RemoveItem lock the row of carts first and *)
(* the rows of cart_items after it; Clear goes the other way round.  The   *)
(* writes of a transaction touch only rows it has locked, so they are      *)
(* applied when it commits.                                                *)
(***************************************************************************)
EXTENDS Integers, Sequences, FiniteSets, SequencesExt

CONSTANTS
    Customer,
    Staff,          \* callers that hold the permission cart:read
    Variant,
    MaxQty,
    Request         \* HTTP requests in progress

CartAssumption ==
    /\ Customer \cap Staff = {}
    /\ IsFiniteSet(Variant)
    /\ MaxQty \in Nat \ {0}

VARIABLES
    cartRows,       \* customers with a row in carts
    cartItems,      \* the table cart_items: quantity by customer and variant
    req             \* the requests

tables == <<cartRows, cartItems>>
vars == <<cartRows, cartItems, req>>

NoItems == [v \in Variant |-> 0]

Lines(items) == {v \in Variant : items[v] > 0}

CartRow(c) == <<"cart", c>>
ItemRow(c, v) == <<"item", c, v>>

ItemRows(c, lines) == {ItemRow(c, v) : v \in lines}

StoredRows(c) ==
    ItemRows(c, Lines(cartItems[c])) \cup (IF c \in cartRows THEN {CartRow(c)} ELSE {})

(***************************************************************************)
(* A request: pc is where it is, todo the lines still to be checked,       *)
(* missing the lines that did not resolve, stock the quantities that the   *)
(* inventory service answered, plan the statements left, route the rows    *)
(* the current statement has yet to lock.  seen is a history variable: the *)
(* carts committed since the request began.                                *)
(***************************************************************************)
NoRequest ==
    [pc |-> "idle", op |-> "none", cart |-> "none", items |-> NoItems, todo |-> {},
     missing |-> {}, stock |-> NoItems, plan |-> <<>>, route |-> <<>>, held |-> {}, saved |-> FALSE,
     answer |-> NoItems, status |-> 0, seen |-> {}]

Init ==
    /\ cartRows = {}
    /\ cartItems = [c \in Customer |-> NoItems]
    /\ req = [q \in Request |-> NoRequest]

At(q, pc) == req[q].pc = pc

\* StatusOf gone wrong: an error it does not know is the caller's fault.
StatusBlamesCaller(err) ==
    CASE err = "ok"                 -> 200
      [] err = "forbidden"          -> 403
      [] err = "variant not found"  -> 422
      [] err = "product down"       -> 503
      [] OTHER                      -> 400

\* The service's errors as the handler answers them.
StatusOf(err) ==
    CASE err = "ok"                 -> 200
      [] err = "insufficient stock" -> 400
      [] err = "forbidden"          -> 403
      [] err = "variant not found"  -> 422
      [] err = "product down"       -> 503
      [] err = "internal"           -> 500

\* The request leaves with an error; what it saved stays saved.
Fail(q, err) ==
    req' = [req EXCEPT ![q] = [NoRequest EXCEPT !.pc = "answered", !.status = StatusOf(err),
                                                !.saved = req[q].saved]]

-----------------------------------------------------------------------------
\* PlanOf gone wrong: ReplaceItems empties the cart before it touches its row.
PlanTouchLast(op) ==
    CASE op = "replace" -> <<"delete all", "touch", "insert">>
      [] op = "upsert"  -> <<"touch", "insert">>
      [] op = "remove"  -> <<"touch existing", "delete line">>
      [] op = "clear"   -> <<"delete all", "delete cart", "cascade">>

\* The statements of each transaction, in the order of the repository's code.
PlanOf(op) ==
    CASE op = "replace" -> <<"touch", "delete all", "insert">>
      [] op = "upsert"  -> <<"touch", "insert">>
      [] op = "remove"  -> <<"touch existing", "delete line">>
      [] op = "clear"   -> <<"delete all", "delete cart", "cascade">>

Arrive(q, c, op, items, pc) ==
    /\ At(q, "idle")
    /\ req' = [req EXCEPT ![q] =
                 [NoRequest EXCEPT !.pc = pc, !.op = op, !.cart = c, !.items = items,
                                   !.todo = IF pc = "resolve" THEN Lines(items) ELSE {},
                                   !.plan = IF pc = "read" THEN <<>> ELSE PlanOf(op),
                                   !.seen = {cartItems[c]}]]
    /\ UNCHANGED tables

\* GET of the own cart.
GetCart(q, c) == Arrive(q, c, "get", NoItems, "read")

\* PUT of the whole list, after ValidateStoredItems; it may be empty.
ReplaceItems(q, c, items) == Arrive(q, c, "replace", items, "resolve")

\* POST of one line; its quantity replaces the line's.
UpsertItem(q, c, v, n) == Arrive(q, c, "upsert", [NoItems EXCEPT ![v] = n], "resolve")

\* DELETE of a line by its sku.
RemoveItem(q, c, v) == Arrive(q, c, "remove", [NoItems EXCEPT ![v] = 1], "save")

\* DELETE of a line by its sku id.
RemoveItemBySkuID(q, c, v) == Arrive(q, c, "remove", [NoItems EXCEPT ![v] = 1], "save")

ClearCart(q, c) == Arrive(q, c, "clear", NoItems, "save")

\* The routes act on the cart of the caller that the access token names.
cart(q, caller) == GetCart(q, caller) \/ ClearCart(q, caller)

cartItemsRoute(q, caller) ==
    \/ \E items \in [Variant -> 0..MaxQty] : ReplaceItems(q, caller, items)
    \/ \E v \in Variant, n \in 1..MaxQty : UpsertItem(q, caller, v, n)

cartItem(q, caller) ==
    \E v \in Variant : RemoveItem(q, caller, v) \/ RemoveItemBySkuID(q, caller, v)

\* Another customer's cart can only be read, and only with cart:read.
adminCart(q, caller, c) ==
    \/ caller \in Staff /\ GetCart(q, c)
    \/ /\ caller \notin Staff
       /\ At(q, "idle")
       /\ Fail(q, "forbidden")
       /\ UNCHANGED tables

-----------------------------------------------------------------------------
\* What the product service answers for the next line: found, gone or an error.
resolveVariant(q) ==
    /\ At(q, "resolve")
    /\ \E v \in req[q].todo :
          \/ req' = [req EXCEPT ![q].pc = "check", ![q].todo = req[q].todo \ {v},
                                ![q].route = <<v>>]
          \/ req' = [req EXCEPT ![q].todo = req[q].todo \ {v},
                                ![q].missing = req[q].missing \cup {v}]
          \/ Fail(q, "product down")
    /\ UNCHANGED tables

\* InStock gone wrong: one more than there is passes.
OneTooMany(q, v, qty) == req[q].items[v] <= qty + 1

\* What is available by the inventory service's answer; no row counts as 0.
InStock(q, v, qty) == req[q].items[v] <= qty

checkAvailableQty(q) ==
    /\ At(q, "check")
    /\ LET v == Head(req[q].route)
       IN  \/ \E qty \in 0..MaxQty :
                 IF InStock(q, v, qty)
                   THEN req' = [req EXCEPT ![q].pc = "resolve", ![q].route = <<>>,
                                           ![q].stock[v] = qty]
                   ELSE Fail(q, "insufficient stock")
           \/ Fail(q, "internal")
    /\ UNCHANGED tables

Checked(q) ==
    /\ At(q, "resolve") /\ req[q].todo = {}
    /\ IF req[q].missing # {}
         THEN Fail(q, "variant not found")
         ELSE req' = [req EXCEPT ![q].pc = "save"]
    /\ UNCHANGED tables

-----------------------------------------------------------------------------
\* The rows a statement locks, from the snapshot it starts with.
RowsOf(q, stmt) ==
    LET c == req[q].cart
    IN  CASE stmt = "touch"          -> {CartRow(c)}
          [] stmt = "touch existing" -> StoredRows(c) \cap {CartRow(c)}
          [] stmt = "insert"         -> ItemRows(c, Lines(req[q].items))
          [] stmt = "delete line"    -> StoredRows(c) \cap ItemRows(c, Lines(req[q].items))
          [] stmt = "delete all"     -> StoredRows(c) \ {CartRow(c)}
          [] stmt = "delete cart"    -> StoredRows(c) \cap {CartRow(c)}
          [] stmt = "cascade"        -> IF CartRow(c) \in req[q].held THEN StoredRows(c) ELSE {}

Statement(q) ==
    /\ At(q, "save") /\ req[q].route = <<>> /\ req[q].plan # <<>>
    /\ \E route \in SetToSeqs(RowsOf(q, Head(req[q].plan)) \ req[q].held) :
           req' = [req EXCEPT ![q].pc = IF route = <<>> THEN "save" ELSE Head(req[q].plan),
                              ![q].plan = Tail(req[q].plan),
                              ![q].route = route]
    /\ UNCHANGED tables

Inserting(q) == req[q].pc \in {"touch", "insert"}

Statements ==
    {"touch", "touch existing", "insert", "delete line", "delete all", "delete cart", "cascade"}

Locking(q) == req[q].pc \in Statements

Holder(row) == {p \in Request : row \in req[p].held}

\* A row is granted once nobody holds it; one that was deleted meanwhile is skipped.
Lock(q) ==
    /\ Locking(q)
    /\ LET row == Head(req[q].route)
       IN  /\ Holder(row) = {}
           /\ req' = [req EXCEPT
                 ![q].pc = IF Len(req[q].route) = 1 THEN "save" ELSE req[q].pc,
                 ![q].route = Tail(req[q].route),
                 ![q].held = IF Inserting(q) \/ row \in StoredRows(req[q].cart)
                               THEN req[q].held \cup {row} ELSE req[q].held]
    /\ UNCHANGED tables

Held(q) == {v \in Variant : ItemRow(req[q].cart, v) \in req[q].held}

\* Saved gone wrong: the first line of a new list is the last that is inserted.
SavedFirst(q) ==
    LET old == cartItems[req[q].cart]
        new == req[q].items
        first == CHOOSE v \in Lines(new) : TRUE
    IN  CASE req[q].op = "replace" -> [v \in Variant |->
                                          IF v \in Lines(new) /\ v = first THEN new[v] ELSE 0]
          [] req[q].op = "upsert"  -> [v \in Variant |-> IF new[v] > 0 THEN new[v] ELSE old[v]]
          [] OTHER                 -> [v \in Variant |-> IF v \in Held(q) THEN 0 ELSE old[v]]

\* What the transaction leaves in the cart.
Saved(q) ==
    LET old == cartItems[req[q].cart]
        new == req[q].items
    IN  CASE req[q].op = "replace" -> [v \in Variant |->
                                          IF v \in Held(q) THEN new[v] ELSE old[v]]
          [] req[q].op = "upsert"  -> [v \in Variant |-> IF new[v] > 0 THEN new[v] ELSE old[v]]
          [] OTHER                 -> [v \in Variant |-> IF v \in Held(q) THEN 0 ELSE old[v]]

\* COMMIT; UpsertItem and RemoveItem then read the cart again.
Commit(q) ==
    /\ At(q, "save") /\ req[q].plan = <<>> /\ req[q].route = <<>>
    /\ LET c == req[q].cart
       IN  /\ cartItems' = [cartItems EXCEPT ![c] = Saved(q)]
           /\ cartRows' = CASE req[q].op \in {"replace", "upsert"} -> cartRows \cup {c}
                            [] req[q].op = "clear" /\ CartRow(c) \in req[q].held -> cartRows \ {c}
                            [] OTHER -> cartRows
           /\ req' = [p \in Request |->
                 IF p = q
                   THEN [NoRequest EXCEPT !.pc = CASE req[q].op = "clear" -> "cleared"
                                                   [] req[q].op = "replace" -> "enrich"
                                                   [] OTHER -> "read",
                                          !.cart = c, !.answer = req[q].items, !.saved = TRUE,
                                          !.seen = req[q].seen \cup {Saved(q)}]
                   ELSE IF req[p].cart = c
                   THEN [req[p] EXCEPT !.seen = @ \cup {Saved(q)}]
                   ELSE req[p]]

\* The connection fails or the deadlock detector picks this transaction.
Rollback(q) ==
    /\ At(q, "save") \/ Locking(q)
    /\ Fail(q, "internal")
    /\ UNCHANGED tables

-----------------------------------------------------------------------------
\* GetItems reads the row of carts, and the lines in a statement of their own.
GetItems(q) ==
    /\ \/ /\ At(q, "read")
          /\ req' = [req EXCEPT ![q].pc = IF req[q].cart \in cartRows THEN "lines" ELSE "enrich",
                                ![q].answer = NoItems]
       \/ /\ At(q, "lines")
          /\ req' = [req EXCEPT ![q].pc = "enrich", ![q].answer = cartItems[req[q].cart]]
       \/ (At(q, "read") \/ At(q, "lines")) /\ Fail(q, "internal")
    /\ UNCHANGED tables

\* Lines are looked up concurrently; a lookup that fails leaves its line unpriced.
enrichCart(q) ==
    /\ At(q, "enrich")
    /\ req' = [req EXCEPT ![q].pc = "answered", ![q].status = StatusOf("ok"), ![q].cart = "none"]
    /\ UNCHANGED tables

Answer(q) ==
    /\ \/ /\ At(q, "cleared")
          /\ req' = [req EXCEPT ![q].pc = "answered", ![q].status = StatusOf("ok"),
                                ![q].answer = NoItems, ![q].cart = "none"]
       \/ /\ At(q, "answered")
          /\ req' = [req EXCEPT ![q] = NoRequest]
    /\ UNCHANGED tables

Handle(q) ==
    \/ resolveVariant(q) \/ checkAvailableQty(q) \/ Checked(q)
    \/ Statement(q) \/ Lock(q) \/ Commit(q)
    \/ GetItems(q) \/ enrichCart(q) \/ Answer(q)

Next ==
    \/ \E q \in Request :
          \/ \E c \in Customer : cart(q, c) \/ cartItemsRoute(q, c) \/ cartItem(q, c)
          \/ \E caller \in Customer \cup Staff, c \in Customer : adminCart(q, caller, c)
          \/ Handle(q) \/ Rollback(q)

-----------------------------------------------------------------------------
WaitsFor(q, p) == Locking(q) /\ p # q /\ p \in Holder(Head(req[q].route))

Stuck(R) == R # {} /\ \A q \in R : \E p \in R : WaitsFor(q, p)

Spec == Init /\ [][Next]_vars

-----------------------------------------------------------------------------
\* The type invariant; a line belongs to a row of carts (its foreign key).
TypeOK ==
    /\ cartRows \subseteq Customer
    /\ cartItems \in [Customer -> [Variant -> 0..MaxQty]]
    /\ \A c \in Customer : cartItems[c] # NoItems => c \in cartRows
    /\ \A q \in Request : req[q].items \in [Variant -> 0..MaxQty] /\ req[q].todo \subseteq Variant

\* Transactions on one cart can wait for each other in a circle only when one of
\* them is Clear, which deletes the lines before the row the others lock first.
OnlyClearDeadlocks ==
    \A R \in SUBSET Request : Stuck(R) => \E q \in R : req[q].op = "clear"

\* However the transactions overlap, and whichever of them fail, each one that
\* commits did to the tables what the repository's operation promises, at once.
CallOf(q) ==
    IF req[q].op \in {"replace", "upsert", "remove", "clear"}
      THEN [op |-> req[q].op, cart |-> req[q].cart, items |-> req[q].items]
      ELSE [op |-> "none", cart |-> "none", items |-> NoItems]

Store == INSTANCE CartStore WITH carts <- cartItems, call <- [q \in Request |-> CallOf(q)]

ImplementsStore == Store!StoreSpec

\* The cart in an answer is one that existed while the request was handled,
\* though it is read in two statements and after the save committed.
AnswerWasTheCart ==
    \A q \in Request :
        At(q, "answered") /\ req[q].status = StatusOf("ok") => req[q].answer \in req[q].seen

\* An error that blames the caller means that nothing was saved; only a server
\* error can hide a save that took effect.
RefusedMeansUnchanged ==
    \A q \in Request : At(q, "answered") /\ req[q].status \in 400..499 => ~req[q].saved

\* What is saved was in stock, in that quantity, when it was checked.
SavedLinesWereInStock ==
    \A q \in Request :
        req[q].op \in {"replace", "upsert"} /\ At(q, "save")
            => \A v \in Variant : req[q].items[v] <= req[q].stock[v]

-----------------------------------------------------------------------------
(***************************************************************************)
(* Why this is so: the inductive invariant.  r is the record of a request. *)
(***************************************************************************)
Contents == [Variant -> 0..MaxQty]

Writes == {"replace", "upsert", "remove", "clear"}

Saving(r) == r.pc = "save" \/ r.pc \in Statements

\* The statements of its transaction that have begun, and that have all their locks.
Begun(r) == Len(PlanOf(r.op)) - Len(r.plan)
Ended(r) == IF r.pc = "save" THEN Begun(r) ELSE Begun(r) - 1

\* The rows that the current statement has yet to lock.
Ahead(r) == {r.route[i] : i \in DOMAIN r.route}

OwnRows(c) == {CartRow(c)} \cup ItemRows(c, Variant)

TablesOK ==
    /\ cartRows \subseteq Customer
    /\ cartItems \in [Customer -> Contents]
    /\ \A c \in Customer : cartItems[c] # NoItems => c \in cartRows

\* What a request is made of, and how far it has come in the plan of its transaction.
StageOK(r) ==
    /\ r.items \in Contents /\ r.stock \in Contents
    /\ r.todo \subseteq Variant /\ r.missing \subseteq Variant
    /\ r.pc \notin {"idle", "answered"} => r.cart \in Customer
    /\ r.op \notin Writes =>
          r.op \in {"none", "get"}
            /\ r.pc \in {"idle", "read", "lines", "enrich", "cleared", "answered"}
    /\ r.op \in Writes =>
          /\ r.pc \in {"resolve", "check"} => r.op \in {"replace", "upsert"} /\ Begun(r) = 0
          /\ r.pc \in {"resolve", "check"} \/ Saving(r)
          /\ r.plan \in Seq(Statements) /\ Len(r.plan) <= Len(PlanOf(r.op))
          /\ \A i \in 1..Len(r.plan) : r.plan[i] = PlanOf(r.op)[Begun(r) + i]

\* A transaction locks rows of its own cart, and asks for no line but its own.
RouteOK(r) ==
    /\ r.pc \in {"resolve", "save"} => r.route = <<>>
    /\ r.pc \in Statements =>
          /\ Begun(r) >= 1 /\ r.pc = PlanOf(r.op)[Begun(r)]
          /\ r.route # <<>> /\ r.route \in Seq(OwnRows(r.cart))
          /\ r.pc \in {"touch", "touch existing", "delete line"} => Len(r.route) = 1
          /\ r.pc \in {"touch", "touch existing", "delete cart"} => Ahead(r) \subseteq {CartRow(r.cart)}
          /\ r.pc = "delete line" => Ahead(r) \subseteq ItemRows(r.cart, Lines(r.items))

\* Whoever writes lines holds the cart's row first, but for a removal from a cart
\* that was not there, and Clear.
LocksOK(r) ==
    /\ ~Saving(r) => r.held = {}
    /\ Saving(r) =>
          /\ r.held \subseteq OwnRows(r.cart)
          /\ r.op # "clear" /\ Ended(r) = 0 => r.held = {}
          /\ r.op \in {"replace", "upsert"} /\ Ended(r) >= 1 => CartRow(r.cart) \in r.held
          /\ r.op = "remove" =>
                /\ \A v, w \in Lines(r.items) : v = w
                /\ Ended(r) = 1 => r.held \subseteq {CartRow(r.cart)}
                /\ r.held \subseteq {CartRow(r.cart)} \cup ItemRows(r.cart, Lines(r.items))

\* The lines are among the rows that the request holds or is about to lock.
Covered(r, lines) == ItemRows(r.cart, lines) \subseteq r.held \cup Ahead(r)

\* What replaces a cart, or clears it holding its row, has every line that is there;
\* what clears it without that row has found it empty.
CoverOK(r) ==
    Saving(r) =>
        /\ r.op = "replace" /\ Begun(r) >= 2 => Covered(r, Lines(cartItems[r.cart]))
        /\ r.op = "replace" /\ Begun(r) = 3 => Covered(r, Lines(r.items))
        /\ r.op = "clear" =>
              /\ \A v \in Variant : ItemRow(r.cart, v) \in r.held => v \in Lines(cartItems[r.cart])
              /\ Begun(r) = 3 /\ CartRow(r.cart) \in r.held => Covered(r, Lines(cartItems[r.cart]))
              /\ Ended(r) >= 2 /\ CartRow(r.cart) \notin r.held =>
                    r.pc = "save" /\ r.held = {} /\ NoItems \in r.seen

\* A line that passed its check was in stock.
StockOK(r) ==
    r.op \in {"replace", "upsert"} =>
        \A v \in Variant :
            \/ r.items[v] <= r.stock[v]
            \/ r.pc \in {"resolve", "check"} /\ v \in r.todo \cup r.missing
            \/ r.pc = "check" /\ v = Head(r.route)

\* The stored cart has been seen, and so has what is about to be answered.
SeenOK(r) ==
    /\ r.pc \notin {"idle", "answered"} => cartItems[r.cart] \in r.seen
    /\ r.pc = "enrich" => r.answer \in r.seen
    /\ r.pc = "cleared" => NoItems \in r.seen
    /\ r.pc = "answered" /\ r.status = StatusOf("ok") => r.answer \in r.seen
    /\ r.saved \in BOOLEAN
    /\ r.saved =>
          /\ r.pc \in {"read", "lines", "enrich", "cleared", "answered"}
          /\ r.pc = "answered" => r.status \in {StatusOf("ok"), StatusOf("internal")}

RequestOK(r) ==
    StageOK(r) /\ RouteOK(r) /\ LocksOK(r) /\ CoverOK(r) /\ StockOK(r) /\ SeenOK(r)

Exclusive == \A p, q \in Request : p # q => req[p].held \cap req[q].held = {}

CartInv ==
    /\ TablesOK
    /\ req = [q \in Request |-> req[q]]
    /\ \A q \in Request : DOMAIN req[q] = DOMAIN NoRequest /\ RequestOK(req[q])
    /\ Exclusive
=============================================================================
