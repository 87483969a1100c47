---------------------------- MODULE CheckoutProofs ----------------------------
(***************************************************************************)
(* Theorems about Checkout, for any number of sessions, keys and requests. *)
(*                                                                         *)
(* The shape of the state comes first: what a request holds at each step,  *)
(* and that an order id belongs to one request.  A step then touches one   *)
(* order at most, which is all there is to say about the losers of a race  *)
(* and about idempotency keys.  Sessions need more: what each request has  *)
(* copied of its session, and how far the row may have moved on since.     *)
(***************************************************************************)
EXTENDS Checkout, FiniteSetTheorems, TLAPS

-----------------------------------------------------------------------------
(* Types, and what a request has at each step of its work.                 *)

CheckoutSession ==
    [status : {"none", "open", "completed", "expired"}, items : SUBSET Variant,
     coupon : BOOLEAN, discounted : BOOLEAN, order : OrderId \cup {NoOrder}]

OrderRow ==
    [status : {"none", "pending", "canceled"}, items : SUBSET Variant, discounted : BOOLEAN,
     key : Key \cup {NoKey}]

KeyRow == [order : OrderId \cup {NoOrder}, body : Body \cup {"none"}]

Answer == [key : Key, body : Body, order : OrderId]

SessionPc == {"access", "open", "save back", "price", "redeem", "save"}

OrderPc == {"save order", "unwind", "find again", "claim", "cancel", "release"}

Pc == {"idle", "find", "reserve"} \cup SessionPc \cup OrderPc

Op == Edits \cup {"none", "get", "complete", "create"}

RequestState ==
    [pc : Pc, op : Op, ses : Session \cup {"none"}, arg : SUBSET Variant,
     copy : CheckoutSession, key : Key \cup {NoKey}, body : Body \cup {"none"},
     discount : BOOLEAN, order : OrderId \cup {NoOrder}]

Types ==
    /\ sessions \in [Session -> CheckoutSession]
    /\ orders \in [OrderId -> OrderRow]
    /\ keys \in [Key -> KeyRow]
    /\ stock \in [OrderId -> {"none", "active", "released"}]
    /\ nextOrder \in 1..(MaxOrders + 1)
    /\ req \in [Request -> RequestState]
    /\ claims \in [Session -> SUBSET OrderId]
    /\ answers \subseteq Answer
    /\ faulty \in BOOLEAN

RequestOK(job) ==
    /\ job.pc = "idle" => job = NoRequest
    /\ job.pc # "idle" => job.op # "none"
    /\ job.op \in Edits \cup {"get", "complete"} => job.ses \in Session
    /\ IF job.op = "create" THEN job.key \in Key /\ job.body \in Body ELSE job.key = NoKey
    /\ job.pc \in SessionPc => job.op # "create"
    /\ job.pc \in {"open", "price", "redeem"} => job.op # "get"
    /\ job.pc = "save" => job.op \in Edits
    /\ job.pc \in {"find", "find again"} => job.op = "create"
    /\ job.pc \in {"reserve"} \cup OrderPc => job.op \in {"create", "complete"}
    /\ job.pc \in {"claim", "cancel", "release"} => job.op = "complete"
    /\ job.order # NoOrder <=> job.pc \in OrderPc

\* An order somebody was told of: by its session or under its key.
Named(o) == (\E s \in Session : o \in claims[s]) \/ (\E k \in Key : keys[k].order = o)

\* An id is drawn for one request; nobody knows an order before it is saved.
OwnersOK ==
    /\ \A r \in Request : req[r].order < nextOrder
    /\ \A r, q \in Request : req[r].order = req[q].order /\ req[r].order # NoOrder => r = q
    /\ \A o \in OrderId :
          o >= nextOrder => ~Named(o) /\ stock[o] = "none" /\ orders[o].status = "none"
    /\ \A r \in Request : At(r, "save order") => ~Named(req[r].order)

ShapeInv == Types /\ (\A r \in Request : RequestOK(req[r])) /\ OwnersOK

-----------------------------------------------------------------------------
(* The promises.                                                           *)

\* Every answer is the row of its key, which is written once.
AnswersInv ==
    \A a \in answers : keys[a.key] = [order |-> a.order, body |-> a.body]

\* What a request has done to its order, while nothing failed.
OrderStep(r) ==
    LET o == req[r].order
        saved == orders[o].status
    IN  /\ At(r, "save order") => saved = "none" /\ stock[o] = "active"
        /\ At(r, "unwind") => saved = "none" /\ stock[o] = "active"
        /\ At(r, "find again") => saved = "none" /\ stock[o] = "released"
        /\ req[r].pc \in {"claim", "cancel"} => saved = "pending" /\ stock[o] = "active"
        /\ At(r, "release") => saved = "canceled" /\ stock[o] = "active"
        /\ req[r].pc \in OrderPc => ~Named(o)

UndoneInv ==
    ~faulty => LosersAreUndone /\ \A r \in Request : OrderStep(r)

\* A session, in the table or in a copy.
SessionOK(session) ==
    /\ session.order # NoOrder <=> session.status = "completed"
    /\ session.discounted => session.coupon

Matches(session) ==
    session.status = "completed" =>
        LET o == orders[session.order]
        IN  o.items = session.items /\ (session.discounted => o.discounted)

\* The rows of sessions: one order at most, and not open once there is one.
RowOK(s) ==
    /\ SessionOK(sessions[s]) /\ Matches(sessions[s])
    /\ sessions[s].status = "none" => sessions[s] = NoSession
    /\ \A o, p \in claims[s] : o = p
    /\ sessions[s].status = "completed" => sessions[s].order \in claims[s]
    /\ sessions[s].status \in {"none", "open"} => claims[s] = {}

RowsOK == \A s \in Session : RowOK(s)

\* The copies: an edited session has no order, one written back is not open, and a
\* completion has what the session has while that is open.
CopyOK(r) ==
    LET job == req[r]
        row == sessions[job.ses]
    IN  /\ SessionOK(job.copy)
        /\ job.op \in Edits \cup {"get", "complete"} => row.status # "none"
        /\ job.op \in Edits /\ job.pc \in {"price", "redeem", "save"} =>
              job.copy.status = "open" /\ claims[job.ses] = {}
        /\ job.pc = "save back" =>
              /\ job.copy.status \in {"completed", "expired"}
              /\ job.copy.status = "completed" => job.copy.order \in claims[job.ses]
              /\ Matches(job.copy)
        /\ /\ job.op = "complete" /\ row.status = "open"
           /\ job.pc \in {"price", "redeem", "reserve", "save order", "claim"}
           => row.items = job.copy.items /\ (row.discounted => job.copy.discounted)
        /\ job.op = "complete" /\ job.pc \in {"reserve", "save order", "claim"} =>
              (job.copy.discounted => job.discount)
        /\ job.pc = "claim" =>
              /\ orders[job.order].items = job.copy.items
              /\ orders[job.order].discounted = job.discount

\* A client that edits a session does not complete it at the same time.
ApartOK ==
    \A r, q \in Request :
        r # q /\ req[r].op \in Edits /\ req[q].op \in Edits \cup {"complete"} =>
            req[r].ses # req[q].ses

SessionInv == RowsOK /\ ApartOK /\ \A r \in Request : CopyOK(r)

-----------------------------------------------------------------------------
(* Lemmas about one request.                                               *)

Others(r) == \A q \in Request \ {r} : req'[q] = req[q]

LEMMA NoRequestOK ==
    /\ NoRequest \in RequestState /\ RequestOK(NoRequest)
    /\ NoRequest.pc = "idle" /\ NoRequest.op = "none" /\ NoRequest.order = NoOrder
    /\ NoRequest.copy = NoSession /\ NoRequest.key = NoKey
  BY DEF NoRequest, RequestState, RequestOK, NoSession, CheckoutSession, Pc, SessionPc, OrderPc,
         Op, Edits, NoOrder

LEMMA ReqChange ==
    ASSUME Types, \A q \in Request : RequestOK(req[q]), NEW r \in Request,
           NEW job \in RequestState, RequestOK(job), req' = [req EXCEPT ![r] = job]
    PROVE  /\ req' \in [Request -> RequestState]
           /\ \A q \in Request : RequestOK(req'[q])
           /\ req'[r] = job
           /\ Others(r)
  BY DEF Types, Others

LEMMA DoneChange ==
    ASSUME Types, \A q \in Request : RequestOK(req[q]), NEW r \in Request, Done(r)
    PROVE  /\ req' \in [Request -> RequestState]
           /\ \A q \in Request : RequestOK(req'[q])
           /\ req'[r] = NoRequest
           /\ Others(r)
  BY ReqChange, NoRequestOK DEF Done

LEMMA GotoChange ==
    ASSUME Types, \A q \in Request : RequestOK(req[q]), NEW r \in Request, NEW pc \in Pc,
           Goto(r, pc),
           RequestOK([req[r] EXCEPT !.pc = pc])
    PROVE  /\ req' \in [Request -> RequestState]
           /\ \A q \in Request : RequestOK(req'[q])
           /\ req'[r].pc = pc
           /\ req'[r].op = req[r].op /\ req'[r].ses = req[r].ses /\ req'[r].copy = req[r].copy
           /\ req'[r].key = req[r].key /\ req'[r].body = req[r].body
           /\ req'[r].discount = req[r].discount /\ req'[r].order = req[r].order
           /\ Others(r)
<1>1. [req[r] EXCEPT !.pc = pc] \in RequestState
  BY DEF Types, RequestState
<1>2. req' = [req EXCEPT ![r] = [req[r] EXCEPT !.pc = pc]]
  BY DEF Goto
<1>3. req[r] \in RequestState
  BY DEF Types
<1> HIDE DEF Goto
<1> QED
  BY <1>1, <1>2, <1>3, ReqChange DEF RequestState

LEMMA CopyChange ==
    ASSUME Types, \A q \in Request : RequestOK(req[q]), NEW r \in Request,
           NEW pc \in {"save back", "price", "redeem", "save"}, NEW copy \in CheckoutSession,
           req[r].pc \in SessionPc, pc \in {"price", "redeem"} => req[r].op # "get",
           pc = "save" => req[r].op \in Edits,
           req' = [req EXCEPT ![r].pc = pc, ![r].copy = copy]
    PROVE  /\ req' \in [Request -> RequestState]
           /\ \A q \in Request : RequestOK(req'[q])
           /\ req'[r].pc = pc /\ req'[r].copy = copy
           /\ req'[r].op = req[r].op /\ req'[r].ses = req[r].ses /\ req'[r].key = req[r].key
           /\ req'[r].order = NoOrder
           /\ Others(r)
<1> DEFINE job == [req[r] EXCEPT !.pc = pc, !.copy = copy]
<1>1. req[r] \in RequestState /\ RequestOK(req[r])
  BY DEF Types
<1>2. /\ job \in RequestState
      /\ job.pc = pc /\ job.copy = copy /\ job.op = req[r].op /\ job.ses = req[r].ses
      /\ job.key = req[r].key /\ job.body = req[r].body /\ job.order = req[r].order
  BY <1>1 DEF RequestState, Pc, SessionPc
<1>3. req[r].order = NoOrder /\ req[r].op # "none" /\ req[r].op # "create"
  BY <1>1 DEF RequestOK, SessionPc, OrderPc
<1>4. RequestOK(job)
  <2> HIDE DEF job
  <2> QED
    BY <1>1, <1>2, <1>3 DEF RequestOK, SessionPc, OrderPc
<1>5. req' = [req EXCEPT ![r] = job]
  OBVIOUS
<1> HIDE DEF job
<1> QED
  BY <1>2, <1>3, <1>4, <1>5, ReqChange

\* The operations on a session give sessions.
LEMMA SessionTypes ==
    ASSUME NEW session \in CheckoutSession, NEW s, NEW items \in SUBSET Variant
    PROVE  /\ EnsureOpen(session, s) \in CheckoutSession
           /\ SetItems(session, items) \in CheckoutSession
           /\ UpsertItem(session, items) \in CheckoutSession
           /\ RemoveItem(session, items) \in CheckoutSession
           /\ RemoveItemBySkuID(session, items) \in CheckoutSession
           /\ ApplyCoupon(session) \in CheckoutSession
  BY DEF EnsureOpen, SetItems, UpsertItem, RemoveItem, RemoveItemBySkuID, ApplyCoupon,
         CheckoutSession

\* The steps of a request that only read: they leave every table alone.
Reads(r) ==
    \/ GetCheckoutSession(r) \/ getOpenCheckoutSession(r) \/ priceItems(r) \/ Redeem(r)
    \/ \E s \in Session : checkoutSession(r, s)
    \/ \E k \in Key, b \in Body : createOrder(r, k, b)

\* What a request is like after one of its steps.
RequestsOK ==
    /\ req \in [Request -> RequestState]
    /\ \A q \in Request : RequestOK(req[q])

LEMMA AccessShape ==
    ASSUME ShapeInv, NEW r \in Request, NEW s \in Session, checkoutSession(r, s)
    PROVE  /\ RequestsOK' /\ Others(r)
           /\ req[r].order = NoOrder /\ req'[r].order = NoOrder
           /\ req'[r].pc = "access" /\ req'[r].ses = s /\ req'[r].copy = NoSession
           /\ req'[r].op \in Edits \cup {"get", "complete"}
           /\ ~EditsOverlap =>
                 /\ req'[r].op \in Edits => ~Overlaps(s, Edits \cup {"complete"})
                 /\ req'[r].op = "complete" => ~Overlaps(s, Edits)
<1>1. req[r].order = NoOrder
  BY NoRequestOK DEF checkoutSession, At, ShapeInv, RequestOK
<1>2. PICK op \in Edits \cup {"get", "complete"} :
         /\ ~EditsOverlap => /\ op \in Edits => ~Overlaps(s, Edits \cup {"complete"})
                             /\ op = "complete" => ~Overlaps(s, Edits)
         /\ \E arg \in CASE op = "set" -> SUBSET Variant
                         [] op \in {"upsert", "remove", "remove by id"} -> {{v} : v \in Variant}
                         [] OTHER -> {{}} :
               req' = [req EXCEPT ![r] = [NoRequest EXCEPT !.pc = "access", !.op = op,
                                                           !.ses = s, !.arg = arg]]
  BY DEF checkoutSession
<1>3. PICK arg \in SUBSET Variant :
         req' = [req EXCEPT ![r] = [NoRequest EXCEPT !.pc = "access", !.op = op,
                                                     !.ses = s, !.arg = arg]]
  <2> DEFINE args == CASE op = "set" -> SUBSET Variant
                       [] op \in {"upsert", "remove", "remove by id"} -> {{v} : v \in Variant}
                       [] OTHER -> {{}}
  <2>1. ASSUME op = "set"
        PROVE  args = SUBSET Variant
    BY <2>1
  <2>2. ASSUME op \in {"upsert", "remove", "remove by id"}
        PROVE  args = {{v} : v \in Variant}
    BY <2>2
  <2>3. ASSUME op # "set", op \notin {"upsert", "remove", "remove by id"}
        PROVE  args = {{}}
    BY <2>3
  <2>4. \A v \in Variant : {v} \in SUBSET Variant
    OBVIOUS
  <2>5. args \subseteq SUBSET Variant
    <3>1. CASE op = "set"
      BY <2>1, <3>1
    <3>2. CASE op \in {"upsert", "remove", "remove by id"}
      BY <2>2, <2>4, <3>2
    <3>3. CASE op # "set" /\ op \notin {"upsert", "remove", "remove by id"}
      BY <2>3, <3>3
    <3> HIDE DEF args
    <3> QED
      BY <3>1, <3>2, <3>3
  <2>6. \E arg \in args :
           req' = [req EXCEPT ![r] = [NoRequest EXCEPT !.pc = "access", !.op = op,
                                                       !.ses = s, !.arg = arg]]
    BY <1>2
  <2> HIDE DEF args
  <2> QED
    BY <2>5, <2>6
<1> DEFINE job == [NoRequest EXCEPT !.pc = "access", !.op = op, !.ses = s, !.arg = arg]
<1>4. /\ job \in RequestState /\ RequestOK(job) /\ job.order = NoOrder
      /\ job.pc = "access" /\ job.op = op /\ job.ses = s /\ job.copy = NoSession
  BY NoRequestOK DEF NoRequest, RequestState, RequestOK, Pc, SessionPc, OrderPc, Op, Edits
<1>5. req' = [req EXCEPT ![r] = job]
  BY <1>3
<1> HIDE DEF job
<1> QED
  BY <1>1, <1>2, <1>4, <1>5, ReqChange DEF ShapeInv, RequestsOK

LEMMA CreateShape ==
    ASSUME ShapeInv, NEW r \in Request, NEW k \in Key, NEW b \in Body, createOrder(r, k, b)
    PROVE  /\ RequestsOK' /\ Others(r)
           /\ req[r].order = NoOrder /\ req'[r].order = NoOrder
           /\ req'[r].op = "create" /\ req'[r].copy = NoSession
           /\ req'[r].pc = "find"
<1>1. req[r].order = NoOrder
  BY NoRequestOK DEF createOrder, At, ShapeInv, RequestOK
<1> DEFINE job == [NoRequest EXCEPT !.pc = "find", !.op = "create", !.key = k, !.body = b]
<1>2. /\ job \in RequestState /\ RequestOK(job) /\ job.order = NoOrder
      /\ job.pc = "find" /\ job.op = "create" /\ job.copy = NoSession
  BY NoRequestOK DEF NoRequest, RequestState, RequestOK, Pc, SessionPc, OrderPc, Op, Edits
<1>3. req' = [req EXCEPT ![r] = job]
  BY DEF createOrder
<1> HIDE DEF job
<1> QED
  BY <1>1, <1>2, <1>3, ReqChange DEF ShapeInv, RequestsOK

\* What a request keeps of itself from step to step.
Same(r) == req'[r].op = req[r].op /\ req'[r].ses = req[r].ses

LEMMA GetShape ==
    ASSUME ShapeInv, NEW r \in Request, GetCheckoutSession(r)
    PROVE  /\ RequestsOK' /\ Others(r)
           /\ req[r].pc = "access" /\ req[r].order = NoOrder /\ req'[r].order = NoOrder
           /\ \/ req'[r] = NoRequest
              \/ /\ req'[r].pc = "open" /\ Same(r) /\ req'[r].copy = req[r].copy
              \/ /\ Expired(sessions[req[r].ses], req[r].ses)
                 /\ req'[r].pc = "save back" /\ Same(r)
                 /\ req'[r].copy = EnsureOpen(sessions[req[r].ses], req[r].ses)
<1>1. /\ Types /\ \A q \in Request : RequestOK(req[q])
      /\ req[r].pc = "access" /\ RequestOK(req[r]) /\ req[r] \in RequestState
  BY DEF ShapeInv, GetCheckoutSession, At, Types
<1>2. req[r].order = NoOrder /\ req[r].ses \in Session
  BY <1>1 DEF RequestOK, SessionPc, OrderPc, RequestState, Op
<1>3. CASE Done(r)
  BY <1>1, <1>2, <1>3, DoneChange, NoRequestOK DEF RequestsOK
<1>4. CASE Goto(r, "open") /\ req[r].op # "get"
  <2>1. RequestOK([req[r] EXCEPT !.pc = "open"])
    BY <1>1, <1>4 DEF RequestOK, RequestState, SessionPc, OrderPc
  <2>2. "open" \in Pc
    BY DEF Pc, SessionPc
  <2> QED
    BY <1>1, <1>2, <1>4, <2>1, <2>2, GotoChange DEF RequestsOK, Same
<1>5. CASE /\ Expired(sessions[req[r].ses], req[r].ses)
           /\ req' = [req EXCEPT ![r].pc = "save back",
                         ![r].copy = EnsureOpen(sessions[req[r].ses], req[r].ses)]
  <2>1. EnsureOpen(sessions[req[r].ses], req[r].ses) \in CheckoutSession
    BY <1>1, <1>2, SessionTypes DEF Types
  <2>2. req[r].pc \in SessionPc
    BY <1>1 DEF SessionPc
  <2> QED
    BY <1>1, <1>2, <1>5, <2>1, <2>2, CopyChange DEF RequestsOK, Same
<1> QED
  BY <1>3, <1>4, <1>5 DEF GetCheckoutSession

LEMMA OpenShape ==
    ASSUME ShapeInv, NEW r \in Request, getOpenCheckoutSession(r)
    PROVE  LET s == req[r].ses
               row == EnsureOpen(sessions[s], s)
           IN  /\ RequestsOK' /\ Others(r)
               /\ req[r].pc = "open" /\ req[r].order = NoOrder /\ req'[r].order = NoOrder
               /\ \/ req'[r] = NoRequest
                  \/ /\ row.status # "open"
                     /\ req'[r].pc = "save back" /\ Same(r) /\ req'[r].copy = row
                  \/ /\ row.status = "open" /\ Same(r)
                     /\ req'[r].pc \in {"price", "redeem", "save"}
                     /\ IF req[r].op \in {"remove", "remove by id"}
                          THEN req'[r].copy \in {RemoveItem(row, req[r].arg),
                                                 RemoveItemBySkuID(row, req[r].arg)}
                        ELSE req'[r].copy = row
<1> DEFINE s == req[r].ses
           row == EnsureOpen(sessions[s], s)
           op == req[r].op
           copy == CASE op = "remove" -> RemoveItem(row, req[r].arg)
                     [] op = "remove by id" -> RemoveItemBySkuID(row, req[r].arg)
                     [] OTHER -> row
<1>1. /\ Types /\ \A q \in Request : RequestOK(req[q])
      /\ req[r].pc = "open" /\ RequestOK(req[r]) /\ req[r] \in RequestState
  BY DEF ShapeInv, getOpenCheckoutSession, At, Types
<1>2. /\ req[r].order = NoOrder /\ s \in Session /\ req[r].pc \in SessionPc
      /\ op \in Edits \cup {"complete"}
  BY <1>1 DEF RequestOK, SessionPc, OrderPc, RequestState, Op
<1>3. row \in CheckoutSession /\ sessions[s] \in CheckoutSession /\ req[r].arg \in SUBSET Variant
  BY <1>1, <1>2, SessionTypes DEF Types, RequestState
<1>4. CASE Done(r)
  BY <1>1, <1>2, <1>4, DoneChange, NoRequestOK DEF RequestsOK
<1>5. CASE row.status # "open" /\ req' = [req EXCEPT ![r].pc = "save back", ![r].copy = row]
  BY <1>1, <1>2, <1>3, <1>5, CopyChange DEF RequestsOK, Same
<1>6. CASE row.status = "open" /\ req' = [req EXCEPT ![r].pc = NextPc(op, row), ![r].copy = copy]
  <2>1. /\ copy \in CheckoutSession
        /\ IF op \in {"remove", "remove by id"}
             THEN copy \in {RemoveItem(row, req[r].arg), RemoveItemBySkuID(row, req[r].arg)}
           ELSE copy = row
    <3> HIDE DEF row, op
    <3>1. /\ RemoveItem(row, req[r].arg) \in CheckoutSession
          /\ RemoveItemBySkuID(row, req[r].arg) \in CheckoutSession
      BY <1>3, SessionTypes
    <3> QED
      BY <1>3, <3>1
  <2>2. /\ NextPc(op, row) \in {"price", "redeem", "save"}
        /\ NextPc(op, row) = "save" => op \in Edits
    <3> HIDE DEF row, op
    <3>1. op \in {"set", "upsert", "remove", "remove by id", "coupon", "complete"}
      BY <1>2 DEF Edits, op
    <3> QED
      BY <3>1 DEF NextPc, Edits
  <2>3. op # "get"
    BY <1>2 DEF Edits
  <2>4. /\ RequestsOK' /\ Others(r) /\ Same(r) /\ req'[r].order = NoOrder
        /\ req'[r].pc = NextPc(op, row) /\ req'[r].copy = copy
    <3> HIDE DEF row, copy
    <3> QED
      BY <1>1, <1>2, <1>6, <2>1, <2>2, <2>3, CopyChange DEF RequestsOK, Same
  <2> HIDE DEF copy
  <2> QED
    BY <1>1, <1>2, <1>6, <2>1, <2>2, <2>4
<1> QED
  <2>1. \/ Done(r)
        \/ row.status # "open" /\ req' = [req EXCEPT ![r].pc = "save back", ![r].copy = row]
        \/ row.status = "open" /\ req' = [req EXCEPT ![r].pc = NextPc(op, row), ![r].copy = copy]
    BY DEF getOpenCheckoutSession
  <2> QED
    BY <1>4, <1>5, <1>6, <2>1

LEMMA PriceShape ==
    ASSUME ShapeInv, NEW r \in Request, priceItems(r)
    PROVE  LET job == req[r]
           IN  /\ RequestsOK' /\ Others(r)
               /\ job.pc = "price" /\ job.order = NoOrder /\ req'[r].order = NoOrder
               /\ \/ req'[r] = NoRequest
                  \/ /\ job.op = "complete" /\ Same(r)
                     /\ req'[r].pc = (IF job.copy.coupon THEN "redeem" ELSE "reserve")
                     /\ req'[r].copy = job.copy
                  \/ /\ job.op \in Edits /\ Same(r)
                     /\ req'[r].pc = "save"
                     /\ req'[r].copy \in {SetItems(job.copy, job.arg), UpsertItem(job.copy, job.arg)}
<1> DEFINE job == req[r]
<1>1. /\ Types /\ \A q \in Request : RequestOK(req[q])
      /\ req[r].pc = "price" /\ RequestOK(req[r]) /\ req[r] \in RequestState
  BY DEF ShapeInv, priceItems, At, Types
<1>2. /\ req[r].order = NoOrder /\ req[r].pc \in SessionPc
      /\ job.op \in Edits \cup {"complete"}
  BY <1>1 DEF RequestOK, SessionPc, OrderPc, RequestState, Op
<1>3. /\ SetItems(job.copy, job.arg) \in CheckoutSession
      /\ UpsertItem(job.copy, job.arg) \in CheckoutSession
  BY <1>1, SessionTypes DEF RequestState
<1>4. CASE Done(r)
  BY <1>1, <1>2, <1>4, DoneChange, NoRequestOK DEF RequestsOK
<1>5. CASE job.op = "complete" /\ Goto(r, IF job.copy.coupon THEN "redeem" ELSE "reserve")
  <2>1. PICK pc \in {"redeem", "reserve"} : pc = IF job.copy.coupon THEN "redeem" ELSE "reserve"
    OBVIOUS
  <2>2. RequestOK([req[r] EXCEPT !.pc = pc])
    BY <1>1, <1>2, <1>5 DEF RequestOK, RequestState, SessionPc, OrderPc
  <2>3. pc \in Pc
    BY DEF Pc, SessionPc
  <2> QED
    BY <1>1, <1>2, <1>5, <2>1, <2>2, <2>3, GotoChange DEF RequestsOK, Same
<1>6. CASE /\ job.op # "complete"
           /\ \E copy \in {SetItems(job.copy, job.arg), UpsertItem(job.copy, job.arg)} :
                 req' = [req EXCEPT ![r].pc = "save", ![r].copy = copy]
  <2>1. PICK copy \in {SetItems(job.copy, job.arg), UpsertItem(job.copy, job.arg)} :
                 req' = [req EXCEPT ![r].pc = "save", ![r].copy = copy]
    BY <1>6
  <2>2. copy \in CheckoutSession
    BY <1>3
  <2> QED
    BY <1>1, <1>2, <1>6, <2>1, <2>2, CopyChange DEF RequestsOK, Same
<1> QED
  BY <1>4, <1>5, <1>6 DEF priceItems

LEMMA RedeemShape ==
    ASSUME ShapeInv, NEW r \in Request, Redeem(r)
    PROVE  LET job == req[r]
           IN  /\ RequestsOK' /\ Others(r)
               /\ job.pc = "redeem" /\ job.order = NoOrder /\ req'[r].order = NoOrder
               /\ \/ req'[r] = NoRequest
                  \/ /\ job.op = "complete" /\ Same(r)
                     /\ req'[r].pc = "reserve" /\ req'[r].discount = TRUE
                     /\ req'[r].copy = job.copy
                  \/ /\ job.op \in Edits /\ Same(r)
                     /\ req'[r].pc = "save" /\ req'[r].copy = ApplyCoupon(job.copy)
<1> DEFINE job == req[r]
<1>1. /\ Types /\ \A q \in Request : RequestOK(req[q])
      /\ req[r].pc = "redeem" /\ RequestOK(req[r]) /\ req[r] \in RequestState
  BY DEF ShapeInv, Redeem, At, Types
<1>2. /\ req[r].order = NoOrder /\ req[r].pc \in SessionPc
      /\ job.op \in Edits \cup {"complete"}
  BY <1>1 DEF RequestOK, SessionPc, OrderPc, RequestState, Op
<1>3. ApplyCoupon(job.copy) \in CheckoutSession
  BY <1>1, SessionTypes DEF RequestState
<1>4. CASE Done(r)
  BY <1>1, <1>2, <1>4, DoneChange, NoRequestOK DEF RequestsOK
<1>5. CASE /\ job.op = "complete"
           /\ req' = [req EXCEPT ![r].pc = "reserve", ![r].discount = TRUE]
  <2> DEFINE next == [req[r] EXCEPT !.pc = "reserve", !.discount = TRUE]
  <2>1. /\ next \in RequestState
        /\ next.pc = "reserve" /\ next.discount = TRUE /\ next.copy = job.copy
        /\ next.op = job.op /\ next.ses = job.ses /\ next.order = NoOrder /\ next.key = job.key
    BY <1>1, <1>2 DEF RequestState, Pc, SessionPc
  <2>2. req' = [req EXCEPT ![r] = next]
    BY <1>5
  <2> HIDE DEF next
  <2>3. RequestOK(next)
    BY <1>1, <1>5, <2>1 DEF RequestOK, SessionPc, OrderPc
  <2> QED
    BY <1>1, <1>2, <1>5, <2>1, <2>2, <2>3, ReqChange DEF RequestsOK, Same
<1>6. CASE /\ job.op = "coupon"
           /\ req' = [req EXCEPT ![r].pc = "save", ![r].copy = ApplyCoupon(req[r].copy)]
  <2>1. job.op \in Edits
    BY <1>6 DEF Edits
  <2> QED
    BY <1>1, <1>2, <1>3, <1>6, <2>1, CopyChange DEF RequestsOK, Same
<1> QED
  BY <1>4, <1>5, <1>6 DEF Redeem

-----------------------------------------------------------------------------
(* What a step does to the orders: it touches one at most.                 *)

\* An order nobody is working on any more.
Settled(o) ==
    /\ stock[o] = "active" <=> orders[o].status = "pending"
    /\ orders[o].status = "pending" <=> Named(o)

\* Request r works on order x, which it has or has just drawn; x is NoOrder when
\* it has none.
Touches(r, x) ==
    /\ Others(r)
    /\ req[r].order \in {x, NoOrder} /\ req'[r].order \in {x, NoOrder}
    /\ nextOrder <= nextOrder'
    /\ x # NoOrder => x < nextOrder' /\ (req[r].order = x \/ x = nextOrder)
    /\ At(r, "save order")' => ~Named(x)'
    /\ \A o \in OrderId \ {x} :
          stock'[o] = stock[o] /\ orders'[o].status = orders[o].status /\ (Named(o)' <=> Named(o))

\* Without a fault it leaves x as its next step expects, or settled.
Keeps(r, x) ==
    ~faulty' =>
        /\ ~faulty
        /\ OrderStep(r)'
        /\ x # NoOrder /\ req'[r].order # x => Settled(x)'

LEMMA ShapeStep ==
    ASSUME ShapeInv, Types', RequestsOK', NEW r \in Request, NEW x \in OrderId \cup {NoOrder},
           Touches(r, x)
    PROVE  ShapeInv' /\ (UndoneInv /\ Keeps(r, x) => UndoneInv')
<1>1. /\ \A q \in Request : req[q].order \in OrderId \cup {NoOrder} /\ RequestOK(req[q])
      /\ \A q \in Request : req'[q].order \in OrderId \cup {NoOrder} /\ RequestOK(req'[q])
      /\ nextOrder \in 1..(MaxOrders + 1) /\ nextOrder' \in 1..(MaxOrders + 1)
  BY DEF ShapeInv, Types, RequestsOK, RequestState
<1>2. OwnersOK
  BY DEF ShapeInv
<1>3. \A q \in Request \ {r} : req'[q] = req[q]
  BY DEF Touches, Others
<1>4. /\ req[r].order \in {x, NoOrder} /\ req'[r].order \in {x, NoOrder}
      /\ nextOrder <= nextOrder'
      /\ x # NoOrder => x < nextOrder' /\ (req[r].order = x \/ x = nextOrder)
  BY DEF Touches
<1>0. /\ OrderId \subseteq Int /\ NoOrder \in Int /\ NoOrder \notin OrderId
      /\ x \in Int /\ nextOrder \in Int /\ nextOrder' \in Int
      /\ \A q \in Request : req[q].order \in Int
      /\ \A q \in Request : req'[q].order \in Int
  <2>1. OrderId \subseteq Int /\ NoOrder \in Int /\ NoOrder \notin OrderId
    BY CheckoutAssumption DEF OrderId, NoOrder
  <2>2. nextOrder \in Int /\ nextOrder' \in Int
    BY <1>1, CheckoutAssumption
  <2> QED
    BY <1>1, <2>1, <2>2
<1>5. ASSUME NEW q \in Request \ {r}, x # NoOrder
      PROVE  req[q].order # x
  <2>1. CASE req[r].order = x
    BY <1>2, <1>5, <2>1 DEF OwnersOK
  <2>2. CASE x = nextOrder
    <3>1. req[q].order < nextOrder
      BY <1>2 DEF OwnersOK
    <3> QED
      BY <1>0, <2>2, <3>1
  <2> QED
    BY <1>4, <1>5, <2>1, <2>2
<1>6. ASSUME NEW q \in Request
      PROVE  req'[q].order < nextOrder'
  <2>1. req[q].order < nextOrder /\ req[r].order < nextOrder
    BY <1>2 DEF OwnersOK
  <2>2. CASE q = r
    <3>1. CASE req'[r].order = x /\ x # NoOrder
      BY <1>4, <2>2, <3>1
    <3>2. CASE req'[r].order = NoOrder
      BY <1>0, <1>1, <2>2, <3>2, CheckoutAssumption DEF NoOrder
    <3> QED
      BY <1>4, <3>1, <3>2
  <2>3. CASE q # r
    BY <1>0, <1>3, <1>4, <2>1, <2>3
  <2> QED
    BY <2>2, <2>3
<1>7. ASSUME NEW q \in Request, NEW p \in Request, req'[q].order = req'[p].order,
             req'[q].order # NoOrder, q # p
      PROVE  FALSE
  <2>1. CASE q = r
    BY <1>3, <1>4, <1>5, <1>7, <2>1
  <2>2. CASE p = r
    BY <1>3, <1>4, <1>5, <1>7, <2>2
  <2>3. CASE q # r /\ p # r
    <3>1. req'[q] = req[q] /\ req'[p] = req[p]
      BY <1>3, <2>3
    <3> QED
      BY <1>2, <1>7, <3>1 DEF OwnersOK
  <2> QED
    BY <2>1, <2>2, <2>3
<1>8. ASSUME NEW o \in OrderId, o >= nextOrder'
      PROVE  ~Named(o)' /\ stock'[o] = "none" /\ orders'[o].status = "none"
  <2>1. o # x /\ o >= nextOrder
    BY <1>1, <1>4, <1>8, CheckoutAssumption DEF OrderId, NoOrder
  <2>2. stock'[o] = stock[o] /\ orders'[o].status = orders[o].status /\ (Named(o)' <=> Named(o))
    BY <2>1 DEF Touches
  <2> QED
    BY <1>2, <2>1, <2>2 DEF OwnersOK
<1>9. ASSUME NEW q \in Request, At(q, "save order")'
      PROVE  ~Named(req[q].order)'
  <2>1. req'[q].order # NoOrder
    BY <1>1, <1>9 DEF RequestOK, OrderPc, At
  <2>2. CASE q = r
    <3>1. req'[r].order = x
      BY <1>4, <2>1, <2>2
    <3>2. ~Named(x)'
      BY <1>9, <2>2 DEF Touches
    <3> QED
      BY <2>2, <3>1, <3>2 DEF Named
  <2>3. CASE q # r
    <3>1. At(q, "save order") /\ req'[q] = req[q] /\ req[q].order # x
      BY <1>3, <1>5, <1>9, <2>1, <2>3, <1>4 DEF At
    <3>2. PICK o \in OrderId : o = req[q].order
      BY <1>1, <2>1, <3>1
    <3>3. ~Named(o) /\ (Named(o)' <=> Named(o))
      BY <1>2, <3>1, <3>2 DEF OwnersOK, Touches
    <3>4. req'[q].order = o
      BY <3>1, <3>2
    <3> QED
      BY <3>3, <3>4 DEF Named
  <2> QED
    BY <2>2, <2>3
<1>10. ShapeInv'
  <2>1. OwnersOK'
    BY <1>6, <1>7, <1>8, <1>9 DEF OwnersOK
  <2> QED
    BY <2>1 DEF ShapeInv, RequestsOK
<1>11. ASSUME UndoneInv, Keeps(r, x), ~faulty'
       PROVE  LosersAreUndone' /\ \A q \in Request : OrderStep(q)'
  <2>1. /\ LosersAreUndone /\ \A q \in Request : OrderStep(q)
        /\ ~faulty /\ OrderStep(r)'
        /\ x # NoOrder /\ req'[r].order # x => Settled(x)'
    BY <1>11 DEF UndoneInv, Keeps
  <2>2. ASSUME NEW o \in OrderId, o # x, Settled(o)
        PROVE  Settled(o)'
    <3>1. stock'[o] = stock[o] /\ orders'[o].status = orders[o].status /\ (Named(o)' <=> Named(o))
      BY <2>2 DEF Touches
    <3> QED
      BY <2>2, <3>1 DEF Settled
  <2>3. ASSUME NEW q \in Request, q # r
        PROVE  OrderStep(q)'
    <3>1. req'[q] = req[q] /\ OrderStep(q)
      BY <1>3, <2>1, <2>3
    <3>2. CASE req[q].order = NoOrder
      BY <1>1, <3>1, <3>2 DEF OrderStep, RequestOK, OrderPc, At
    <3>3. CASE req[q].order # NoOrder
      <4>1. PICK o \in OrderId : o = req[q].order
        BY <1>1, <3>3
      <4>2. o # x
        BY <1>4, <1>5, <2>3, <3>3, <4>1
      <4>3. stock'[o] = stock[o] /\ orders'[o].status = orders[o].status /\ (Named(o)' <=> Named(o))
        BY <4>2 DEF Touches
      <4> QED
        BY <3>1, <4>1, <4>3 DEF OrderStep, At
    <3> QED
      BY <3>2, <3>3
  <2>4. ASSUME NEW o \in OrderId, ~\E q \in Request : req'[q].order = o
        PROVE  Settled(o)'
    <3>1. CASE o = x
      BY <2>1, <2>4, <3>1, CheckoutAssumption DEF OrderId, NoOrder
    <3>2. CASE o # x
      <4>1. ~\E q \in Request : req[q].order = o
        BY <1>3, <1>4, <2>4, <3>2, CheckoutAssumption DEF OrderId, NoOrder
      <4>2. Settled(o)
        BY <2>1, <4>1 DEF LosersAreUndone, Settled, Named
      <4> QED
        BY <2>2, <3>2, <4>2
    <3> QED
      BY <3>1, <3>2
  <2>5. LosersAreUndone'
    BY <2>4 DEF LosersAreUndone, Settled, Named
  <2> QED
    BY <2>1, <2>3, <2>5
<1> QED
  BY <1>10, <1>11 DEF UndoneInv

\* A step without an order leaves all of them alone.
LEMMA NoneTouched ==
    ASSUME ShapeInv, NEW r \in Request, RequestsOK', Others(r),
           req[r].order = NoOrder, req'[r].order = NoOrder,
           UNCHANGED <<nextOrder, keys, stock, claims>>,
           \A o \in OrderId : orders'[o].status = orders[o].status
    PROVE  Touches(r, NoOrder) /\ ((faulty => faulty') => Keeps(r, NoOrder))
<1>1. req'[r].pc \notin OrderPc
  BY DEF RequestsOK, RequestOK
<1>2. OrderStep(r)'
  BY <1>1 DEF OrderStep, OrderPc, At
<1>3. ~At(r, "save order")'
  BY <1>1 DEF OrderPc, At
<1>4. \A o : Named(o)' <=> Named(o)
  BY DEF Named
<1>5. nextOrder <= nextOrder'
  BY CheckoutAssumption DEF ShapeInv, Types
<1>6. Touches(r, NoOrder)
  <2> HIDE DEF Named, Others
  <2>1. \A o \in OrderId : stock'[o] = stock[o] /\ (Named(o)' <=> Named(o))
    BY <1>4
  <2> QED
    BY <1>3, <1>5, <2>1 DEF Touches
<1> QED
  BY <1>2, <1>6 DEF Keeps

LEMMA ReadsTouch ==
    ASSUME ShapeInv, NEW r \in Request, Reads(r)
    PROVE  Types' /\ RequestsOK' /\ Touches(r, NoOrder) /\ Keeps(r, NoOrder)
<1>1. /\ UNCHANGED <<sessions, orders, keys, stock, nextOrder, claims, answers, faulty>>
  BY DEF Reads, GetCheckoutSession, getOpenCheckoutSession, priceItems, Redeem,
         checkoutSession, createOrder, tables, history
<1>2. RequestsOK' /\ Others(r) /\ req[r].order = NoOrder /\ req'[r].order = NoOrder
  BY GetShape, OpenShape, PriceShape, RedeemShape, AccessShape, CreateShape DEF Reads
<1>3. Types'
  BY <1>1, <1>2 DEF ShapeInv, Types, RequestsOK
<1> QED
  BY <1>1, <1>2, <1>3, NoneTouched

\* SaveBack and SaveCheckoutSession.
Saves(r) ==
    /\ req[r].pc \in {"save back", "save"}
    /\ \/ sessions' = [sessions EXCEPT ![req[r].ses] = req[r].copy] /\ Fine
       \/ UNCHANGED sessions /\ Refused
    /\ Done(r)
    /\ UNCHANGED <<late, orders, keys, stock, nextOrder, claims, answers>>

LEMMA SavesAre ==
    ASSUME NEW r \in Request, SaveBack(r) \/ SaveCheckoutSession(r)
    PROVE  Saves(r)
  BY DEF SaveBack, SaveCheckoutSession, Saves, At

LEMMA SavesTouch ==
    ASSUME ShapeInv, NEW r \in Request, Saves(r)
    PROVE  Types' /\ RequestsOK' /\ Touches(r, NoOrder) /\ Keeps(r, NoOrder)
<1>1. /\ Types /\ \A q \in Request : RequestOK(req[q])
      /\ req[r] \in RequestState /\ RequestOK(req[r])
  BY DEF ShapeInv, Types
<1>2. RequestsOK' /\ Others(r) /\ req[r].order = NoOrder /\ req'[r].order = NoOrder
  BY <1>1, DoneChange, NoRequestOK DEF Saves, RequestsOK, RequestOK, OrderPc
<1>3. req[r].copy \in CheckoutSession
  BY <1>1 DEF RequestState
<1>4. sessions' \in [Session -> CheckoutSession]
  BY <1>1, <1>3 DEF Saves, Types
<1>5. (faulty => faulty') /\ faulty' \in BOOLEAN
  BY <1>1 DEF Saves, Fine, Refused, Types
<1>6. Types'
  BY <1>1, <1>2, <1>4, <1>5 DEF Saves, Types, RequestsOK
<1> QED
  BY <1>2, <1>5, <1>6, NoneTouched DEF Saves

LEMMA LoadShape ==
    ASSUME ShapeInv, NEW r \in Request, loadIdempotentOrder(r)
    PROVE  /\ RequestsOK' /\ Others(r)
           /\ req[r].pc \in {"find", "find again"} /\ req[r].op = "create"
           /\ req'[r].order = NoOrder
           /\ \/ req'[r] = NoRequest
              \/ /\ req[r].pc = "find" /\ req'[r].pc = "reserve" /\ Same(r)
                 /\ req'[r].copy = req[r].copy
<1>1. /\ Types /\ \A q \in Request : RequestOK(req[q])
      /\ RequestOK(req[r]) /\ req[r] \in RequestState
      /\ req[r].pc \in {"find", "find again"} /\ req[r].op = "create"
  BY DEF ShapeInv, loadIdempotentOrder, At, Types, RequestOK
<1>2. CASE Done(r)
  BY <1>1, <1>2, DoneChange, NoRequestOK DEF RequestsOK
<1>3. CASE req[r].pc = "find" /\ Goto(r, "reserve")
  <2>1. RequestOK([req[r] EXCEPT !.pc = "reserve"])
    BY <1>1, <1>3 DEF RequestOK, RequestState, SessionPc, OrderPc
  <2>2. "reserve" \in Pc /\ req[r].order = NoOrder
    BY <1>1, <1>3 DEF Pc, OrderPc, RequestOK
  <2> QED
    BY <1>1, <1>3, <2>1, <2>2, GotoChange DEF RequestsOK, Same
<1> QED
  BY <1>1, <1>2, <1>3 DEF loadIdempotentOrder, At

LEMMA ReserveShape ==
    ASSUME ShapeInv, NEW r \in Request, Reserve(r)
    PROVE  /\ RequestsOK' /\ Others(r)
           /\ req[r].pc = "reserve" /\ req[r].order = NoOrder
           /\ \/ /\ req'[r] = NoRequest
                 /\ \/ UNCHANGED <<nextOrder, stock>>
                    \/ /\ nextOrder \in OrderId /\ nextOrder' = nextOrder + 1
                       /\ \/ stock' = [stock EXCEPT ![nextOrder] = "active"] /\ faulty'
                          \/ UNCHANGED <<stock, faulty>>
              \/ /\ nextOrder \in OrderId /\ nextOrder' = nextOrder + 1
                 /\ stock' = [stock EXCEPT ![nextOrder] = "active"]
                 /\ req'[r].pc = "save order" /\ req'[r].order = nextOrder /\ Same(r)
                 /\ req'[r].copy = req[r].copy /\ req'[r].discount = req[r].discount
                 /\ UNCHANGED faulty
           /\ faulty => faulty'
<1>1. /\ Types /\ \A q \in Request : RequestOK(req[q])
      /\ RequestOK(req[r]) /\ req[r] \in RequestState /\ req[r].pc = "reserve"
  BY DEF ShapeInv, Reserve, At, Types
<1>2. req[r].order = NoOrder /\ (faulty => faulty')
  <2>1. Fine \/ faulty' = TRUE
    BY DEF Reserve, Lost
  <2> QED
    BY <1>1, <2>1 DEF RequestOK, OrderPc, Fine, Types
<1>3. nextOrder <= MaxOrders => nextOrder \in OrderId /\ nextOrder # NoOrder
  BY <1>1, CheckoutAssumption DEF Types, OrderId, NoOrder
<1>4. CASE Done(r)
  <2>1. RequestsOK' /\ Others(r) /\ req'[r] = NoRequest
    BY <1>1, <1>4, DoneChange DEF RequestsOK
  <2>2. \/ UNCHANGED <<nextOrder, stock>>
        \/ /\ nextOrder <= MaxOrders /\ nextOrder' = nextOrder + 1
           /\ \/ stock' = [stock EXCEPT ![nextOrder] = "active"] /\ faulty' = TRUE
              \/ UNCHANGED <<stock, faulty>>
        \/ req'[r].pc = "save order"
    <3>1. ASSUME req' = [req EXCEPT ![r].pc = "save order", ![r].order = nextOrder]
          PROVE  req'[r].pc = "save order"
      <4>1. req'[r] = [req[r] EXCEPT !.pc = "save order", !.order = nextOrder]
        BY <1>1, <3>1 DEF Types
      <4> QED
        BY <1>1, <4>1 DEF RequestState
    <3> QED
      BY <3>1 DEF Reserve, Lost, Fine
  <2> QED
    BY <1>1, <1>2, <1>3, <2>1, <2>2, NoRequestOK
<1>5. CASE /\ nextOrder \in OrderId /\ nextOrder # NoOrder
           /\ req' = [req EXCEPT ![r].pc = "save order", ![r].order = nextOrder]
           /\ nextOrder' = nextOrder + 1
           /\ stock' = [stock EXCEPT ![nextOrder] = "active"]
           /\ Fine
  <2> DEFINE next == [req[r] EXCEPT !.pc = "save order", !.order = nextOrder]
  <2>1. /\ next \in RequestState
        /\ next.pc = "save order" /\ next.discount = req[r].discount /\ next.copy = req[r].copy
        /\ next.op = req[r].op /\ next.ses = req[r].ses /\ next.order = nextOrder
        /\ next.key = req[r].key /\ next.body = req[r].body
    BY <1>1, <1>5 DEF RequestState, Pc, OrderPc
  <2>2. req' = [req EXCEPT ![r] = next]
    BY <1>5
  <2> HIDE DEF next
  <2>3. RequestOK(next)
    BY <1>1, <1>5, <2>1 DEF RequestOK, SessionPc, OrderPc
  <2> QED
    BY <1>1, <1>2, <1>5, <2>1, <2>2, <2>3, ReqChange DEF RequestsOK, Same, Fine
<1> QED
  BY <1>3, <1>4, <1>5 DEF Reserve

\* A step of a request that has an order and keeps it.
LEMMA OrderGoto ==
    ASSUME ShapeInv, NEW r \in Request, req[r].pc \in OrderPc, NEW pc \in OrderPc, Goto(r, pc),
           pc = "find again" => req[r].op = "create",
           pc \in {"claim", "cancel", "release"} => req[r].op = "complete"
    PROVE  /\ RequestsOK' /\ Others(r) /\ Same(r)
           /\ req'[r].pc = pc /\ req'[r].order = req[r].order
           /\ req'[r].copy = req[r].copy /\ req'[r].discount = req[r].discount
<1>1. /\ Types /\ \A q \in Request : RequestOK(req[q])
      /\ RequestOK(req[r]) /\ req[r] \in RequestState
  BY DEF ShapeInv, Types
<1>2. RequestOK([req[r] EXCEPT !.pc = pc])
  BY <1>1 DEF RequestOK, RequestState, SessionPc, OrderPc
<1>3. pc \in Pc
  BY DEF Pc
<1> QED
  BY <1>1, <1>2, <1>3, GotoChange DEF RequestsOK, Same

\* A request that ends.
LEMMA EndShape ==
    ASSUME ShapeInv, NEW r \in Request, Done(r)
    PROVE  RequestsOK' /\ Others(r) /\ req'[r] = NoRequest /\ req'[r].order = NoOrder
  BY DoneChange, NoRequestOK DEF ShapeInv, RequestsOK

\* The order of a request that has one.
LEMMA HasOrder ==
    ASSUME ShapeInv, NEW r \in Request, req[r].pc \in OrderPc
    PROVE  /\ req[r].order \in OrderId /\ req[r].order # NoOrder /\ req[r].order < nextOrder
           /\ nextOrder \in Int
           /\ UndoneInv /\ ~faulty => OrderStep(r)
           /\ req[r].op \in {"create", "complete"}
           /\ req[r].op = "complete" => req[r].ses \in Session /\ req[r].key = NoKey
           /\ req[r].op = "create" => req[r].key \in Key
<1>1. /\ req[r] \in RequestState /\ RequestOK(req[r]) /\ OwnersOK
      /\ nextOrder \in 1..(MaxOrders + 1)
  BY DEF ShapeInv, Types
<1>2. nextOrder \in Int
  BY <1>1, CheckoutAssumption
<1>3. req[r].order # NoOrder /\ req[r].op \in {"create", "complete"}
  BY <1>1 DEF RequestOK
<1>4. /\ req[r].op = "complete" => req[r].ses \in Session /\ req[r].key = NoKey
      /\ req[r].op = "create" => req[r].key \in Key
  BY <1>1 DEF RequestOK
<1> QED
  BY <1>1, <1>2, <1>3, <1>4 DEF RequestState, OwnersOK, UndoneInv

LEMMA IdOrder == \A n \in Int : n <= n /\ n <= n + 1 /\ n < n + 1
  OBVIOUS

\* Touching the order a request has.
LEMMA OwnTouched ==
    ASSUME ShapeInv, NEW r \in Request, req[r].pc \in OrderPc, RequestsOK', Others(r),
           NEW x \in OrderId, x = req[r].order, req'[r].order \in {x, NoOrder},
           req'[r].pc # "save order", nextOrder' = nextOrder,
           \A o \in OrderId \ {x} :
              /\ stock'[o] = stock[o] /\ orders'[o].status = orders[o].status
              /\ (Named(o)' <=> Named(o))
    PROVE  Touches(r, x)
<1>1. x < nextOrder /\ nextOrder \in Int
  BY HasOrder
<1>2. ~At(r, "save order")'
  BY DEF At
<1>3. nextOrder <= nextOrder'
  BY <1>1, IdOrder
<1> HIDE DEF Named, Others
<1> QED
  BY <1>1, <1>2, <1>3 DEF Touches

LEMMA ReserveTouches ==
    ASSUME ShapeInv, NEW r \in Request, Reserve(r)
    PROVE  /\ Types' /\ RequestsOK'
           /\ \E x \in OrderId \cup {NoOrder} : Touches(r, x) /\ (UndoneInv => Keeps(r, x))
<1>1. /\ RequestsOK' /\ Others(r)
      /\ req[r].pc = "reserve" /\ req[r].order = NoOrder
      /\ \/ /\ req'[r] = NoRequest
            /\ \/ UNCHANGED <<nextOrder, stock>>
               \/ /\ nextOrder \in OrderId /\ nextOrder' = nextOrder + 1
                  /\ \/ stock' = [stock EXCEPT ![nextOrder] = "active"] /\ faulty'
                     \/ UNCHANGED <<stock, faulty>>
         \/ /\ nextOrder \in OrderId /\ nextOrder' = nextOrder + 1
            /\ stock' = [stock EXCEPT ![nextOrder] = "active"]
            /\ req'[r].pc = "save order" /\ req'[r].order = nextOrder
            /\ UNCHANGED faulty
      /\ faulty => faulty'
  BY ReserveShape
<1>2. UNCHANGED <<sessions, orders, keys, claims, answers>> /\ faulty' \in BOOLEAN
  BY DEF Reserve, ShapeInv, Types, Fine, Lost
<1>3. Types /\ nextOrder \in Int /\ stock \in [OrderId -> {"none", "active", "released"}]
  BY CheckoutAssumption DEF ShapeInv, Types
<1>4. /\ nextOrder' \in 1..(MaxOrders + 1)
      /\ stock' \in [OrderId -> {"none", "active", "released"}]
  <2>1. nextOrder \in OrderId => nextOrder + 1 \in 1..(MaxOrders + 1)
    BY CheckoutAssumption DEF OrderId
  <2>2. nextOrder \in 1..(MaxOrders + 1)
    BY <1>3 DEF Types
  <2>3. [stock EXCEPT ![nextOrder] = "active"] \in [OrderId -> {"none", "active", "released"}]
    BY <1>3
  <2> QED
    BY <1>1, <1>3, <2>1, <2>2, <2>3
<1>5. Types'
  BY <1>1, <1>2, <1>3, <1>4 DEF Types, RequestsOK
<1>6. \A o : Named(o)' <=> Named(o)
  BY <1>2 DEF Named
<1>7. CASE UNCHANGED <<nextOrder, stock>> /\ req'[r] = NoRequest
  BY <1>1, <1>2, <1>5, <1>7, NoneTouched, NoRequestOK
<1>8. CASE /\ nextOrder \in OrderId /\ nextOrder' = nextOrder + 1
           /\ \/ req'[r] = NoRequest
              \/ req'[r].pc = "save order" /\ req'[r].order = nextOrder
           /\ \/ stock' = [stock EXCEPT ![nextOrder] = "active"]
              \/ stock' = stock
  <2>1. PICK x \in OrderId : x = nextOrder
    BY <1>8
  <2>2. ~Named(x) /\ stock[x] = "none" /\ orders[x].status = "none"
    <3>1. x >= nextOrder
      BY <1>3, <2>1
    <3> QED
      BY <3>1 DEF ShapeInv, OwnersOK
  <2>3. Touches(r, x)
    <3>1. \A o \in OrderId \ {x} : stock'[o] = stock[o] /\ orders'[o] = orders[o]
      BY <1>2, <1>3, <1>8, <2>1
    <3>2. req'[r].order \in {x, NoOrder}
      BY <1>8, <2>1, NoRequestOK
    <3>3. ~Named(x)'
      BY <1>6, <2>2
    <3> HIDE DEF Named
    <3>4. \A o \in OrderId \ {x} : Named(o)' <=> Named(o)
      BY <1>6
    <3>5. nextOrder <= nextOrder' /\ x < nextOrder'
      BY <1>3, <1>8, <2>1, IdOrder
    <3> HIDE DEF Others
    <3> QED
      BY <1>1, <2>1, <3>1, <3>2, <3>3, <3>4, <3>5 DEF Touches
  <2>4. ASSUME ~faulty'
        PROVE  Keeps(r, x)
    <3>1. ~faulty
      BY <1>1, <2>4
    <3>2. ~Named(x)' /\ orders'[x].status = "none"
      BY <1>2, <1>6, <2>2
    <3>3. CASE req'[r] = NoRequest
      <4>1. stock' = stock
        BY <1>1, <1>8, <2>4, <3>3, NoRequestOK
      <4>2. Settled(x)'
        BY <2>2, <3>2, <4>1 DEF Settled
      <4>3. OrderStep(r)'
        BY <3>3, NoRequestOK DEF OrderStep, At, OrderPc
      <4> QED
        BY <3>1, <4>2, <4>3 DEF Keeps
    <3>4. CASE req'[r].pc = "save order" /\ req'[r].order = x
      <4>1. stock'[x] = "active"
        <5>1. req'[r] # NoRequest
          BY <3>4, NoRequestOK
        <5> QED
          BY <1>1, <1>3, <2>1, <5>1
      <4>2. OrderStep(r)'
        <5>1. ~Named(req[r].order)'
          BY <3>2, <3>4 DEF Named
        <5> QED
          BY <3>2, <3>4, <4>1, <5>1 DEF OrderStep, At
      <4> QED
        BY <3>1, <3>4, <4>2 DEF Keeps
    <3> QED
      BY <1>8, <2>1, <3>3, <3>4
  <2> QED
    BY <1>1, <1>5, <2>3, <2>4 DEF Keeps
<1> QED
  BY <1>1, <1>7, <1>8

\* A step that releases the reservation of its order, if the call succeeds.
LEMMA Released ==
    ASSUME ShapeInv, NEW r \in Request, req[r].pc \in {"unwind", "release"},
           NEW x \in OrderId, x = req[r].order, RequestsOK', Others(r),
           \/ req'[r] = NoRequest
           \/ req[r].pc = "unwind" /\ req'[r].pc = "find again" /\ req'[r].order = x,
           UNCHANGED <<sessions, orders, keys, nextOrder, claims, answers>>,
           (stock' = [stock EXCEPT ![x] = "released"] /\ Fine) \/ (UNCHANGED stock /\ Refused)
    PROVE  /\ Types' /\ RequestsOK'
           /\ \E y \in OrderId \cup {NoOrder} : Touches(r, y) /\ (UndoneInv => Keeps(r, y))
<1>1. /\ Types /\ faulty \in BOOLEAN /\ req[r].pc \in OrderPc
      /\ stock \in [OrderId -> {"none", "active", "released"}]
  BY DEF ShapeInv, Types, OrderPc
<1>2. (faulty => faulty') /\ faulty' \in BOOLEAN
  BY <1>1 DEF Fine, Refused
<1>3. /\ stock' \in [OrderId -> {"none", "active", "released"}]
      /\ \A o \in OrderId \ {x} : stock'[o] = stock[o]
  BY <1>1
<1>4. Types'
  BY <1>1, <1>2, <1>3 DEF Types, RequestsOK
<1>5. \A o : Named(o)' <=> Named(o)
  BY DEF Named
<1>6. req'[r].order \in {x, NoOrder} /\ req'[r].pc # "save order"
  BY NoRequestOK
<1>7. Touches(r, x)
  <2>1. \A o \in OrderId \ {x} :
           /\ stock'[o] = stock[o] /\ orders'[o].status = orders[o].status
           /\ (Named(o)' <=> Named(o))
    BY <1>3, <1>5
  <2> QED
    BY <1>1, <1>6, <2>1, OwnTouched
<1>8. ASSUME UndoneInv, ~faulty'
      PROVE  Keeps(r, x)
  <2>1. ~faulty /\ stock'[x] = "released"
    BY <1>1, <1>2, <1>8 DEF Refused
  <2>2. OrderStep(r)
    BY <1>1, <1>8, <2>1, HasOrder
  <2>3. ~Named(x) /\ orders[x].status \in {"none", "canceled"}
        /\ (req[r].pc = "unwind" => orders[x].status = "none")
    BY <2>2 DEF OrderStep, At, OrderPc
  <2>4. Settled(x)'
    BY <1>5, <2>1, <2>3 DEF Settled
  <2>5. OrderStep(r)'
    <3>1. CASE req'[r] = NoRequest
      BY <3>1, NoRequestOK DEF OrderStep, At, OrderPc
    <3>2. CASE req[r].pc = "unwind" /\ req'[r].pc = "find again" /\ req'[r].order = x
      <4>1. ~Named(req[r].order)'
        BY <2>3, <3>2 DEF Named
      <4> QED
        BY <2>1, <2>3, <3>2, <4>1 DEF OrderStep, At
    <3> QED
      BY <3>1, <3>2
  <2> QED
    BY <2>1, <2>4, <2>5 DEF Keeps
<1> QED
  BY <1>4, <1>7, <1>8 DEF Keeps

LEMMA LoadTouches ==
    ASSUME ShapeInv, NEW r \in Request, loadIdempotentOrder(r)
    PROVE  /\ Types' /\ RequestsOK'
           /\ \E x \in OrderId \cup {NoOrder} : Touches(r, x) /\ (UndoneInv => Keeps(r, x))
<1>1. /\ RequestsOK' /\ Others(r)
      /\ req[r].pc \in {"find", "find again"} /\ req[r].op = "create"
      /\ req'[r].order = NoOrder
  BY LoadShape
<1>2. UNCHANGED <<sessions, orders, keys, stock, nextOrder, claims, faulty>>
  BY DEF loadIdempotentOrder, tables
<1>3. Types /\ req[r] \in RequestState /\ RequestOK(req[r])
  BY DEF ShapeInv, Types
<1>4. answers' \subseteq Answer
  <2>1. req[r].key \in Key /\ req[r].body \in Body
    BY <1>1, <1>3 DEF RequestOK
  <2>2. keys[req[r].key] \in KeyRow
    BY <1>3, <2>1 DEF Types
  <2>3. Replay(r) => [key |-> req[r].key, body |-> req[r].body,
                      order |-> keys[req[r].key].order] \in Answer
    BY <2>1, <2>2 DEF Replay, KeyRow, Answer
  <2> QED
    BY <1>3, <2>3 DEF loadIdempotentOrder, Types
<1>5. Types'
  BY <1>1, <1>2, <1>3, <1>4 DEF Types, RequestsOK
<1>6. CASE req[r].order = NoOrder
  BY <1>1, <1>2, <1>5, <1>6, NoneTouched
<1>7. CASE req[r].order # NoOrder
  <2>1. req[r].pc = "find again" /\ req[r].pc \in OrderPc
    BY <1>1, <1>3, <1>7 DEF RequestOK, OrderPc
  <2>2. PICK x \in OrderId : x = req[r].order
    BY <2>1, HasOrder
  <2>3. \A o : Named(o)' <=> Named(o)
    BY <1>2 DEF Named
  <2>4. req'[r].pc # "save order" /\ req'[r].pc \notin OrderPc
    BY <1>1 DEF RequestsOK, RequestOK, OrderPc
  <2>5. Touches(r, x)
    <3>1. \A o \in OrderId \ {x} :
             /\ stock'[o] = stock[o] /\ orders'[o].status = orders[o].status
             /\ (Named(o)' <=> Named(o))
      BY <1>2, <2>3
    <3> QED
      BY <1>1, <1>2, <2>1, <2>2, <2>4, <3>1, OwnTouched
  <2>6. ASSUME UndoneInv, ~faulty'
        PROVE  Keeps(r, x)
    <3>1. ~faulty
      BY <1>2, <2>6
    <3>2. OrderStep(r)
      BY <2>1, <2>6, <3>1, HasOrder
    <3>3. orders[x].status = "none" /\ stock[x] = "released" /\ ~Named(x)
      BY <2>1, <2>2, <3>2 DEF OrderStep, At
    <3>4. Settled(x)'
      BY <1>2, <2>3, <3>3 DEF Settled
    <3>5. OrderStep(r)'
      BY <2>4 DEF OrderStep, At, OrderPc
    <3> QED
      BY <3>1, <3>4, <3>5 DEF Keeps
  <2> QED
    BY <1>1, <1>5, <2>5, <2>6 DEF Keeps
<1> QED
  BY <1>6, <1>7

LEMMA SaveOrderTouches ==
    ASSUME ShapeInv, NEW r \in Request, SaveOrder(r)
    PROVE  /\ Types' /\ RequestsOK'
           /\ \E x \in OrderId \cup {NoOrder} : Touches(r, x) /\ (UndoneInv => Keeps(r, x))
<1>1. /\ Types /\ req[r] \in RequestState /\ RequestOK(req[r]) /\ faulty \in BOOLEAN
      /\ req[r].pc = "save order" /\ req[r].pc \in OrderPc
  BY DEF ShapeInv, Types, SaveOrder, At, OrderPc
<1>2. /\ req[r].op \in {"create", "complete"}
      /\ req[r].op = "complete" => req[r].key = NoKey
      /\ req[r].op = "create" => req[r].key \in Key /\ req[r].body \in Body
  BY <1>1, HasOrder DEF RequestOK
<1>3. PICK x \in OrderId : x = req[r].order
  BY <1>1, HasOrder
<1>4. UNCHANGED <<sessions, stock, nextOrder, claims>> /\ ~Named(x)
  BY <1>1, <1>3 DEF SaveOrder, ShapeInv, OwnersOK, At
<1>5. /\ orders \in [OrderId -> OrderRow] /\ keys \in [Key -> KeyRow]
      /\ stock \in [OrderId -> {"none", "active", "released"}]
  BY <1>1 DEF Types
<1>6. NewRow(r) \in OrderRow /\ NewRow(r).status = "pending"
  BY <1>1 DEF NewRow, ItemsOf, OrderRow, RequestState, CheckoutSession
<1>7. ASSUME Inserted(r), KeyFree(r)
      PROVE  /\ orders' \in [OrderId -> OrderRow] /\ keys' \in [Key -> KeyRow]
             /\ \A o \in OrderId \ {x} : orders'[o] = orders[o] /\ (Named(o)' <=> Named(o))
             /\ orders'[x].status = "pending"
             /\ Named(x)' <=> req[r].key # NoKey
  <2>1. orders' = [orders EXCEPT ![x] = NewRow(r)]
    BY <1>3, <1>7 DEF Inserted
  <2>2. CASE req[r].key = NoKey
    <3>1. keys' = keys
      BY <1>7, <2>2 DEF Inserted
    <3> QED
      BY <1>4, <1>5, <1>6, <2>1, <2>2, <3>1 DEF Named
  <2>3. CASE req[r].key # NoKey
    <3> DEFINE row == [order |-> x, body |-> req[r].body]
    <3>1. PICK k \in Key : k = req[r].key
      BY <1>1, <2>3 DEF RequestState
    <3>2. keys' = [keys EXCEPT ![k] = row] /\ row.order = x
      BY <1>3, <1>7, <2>3, <3>1 DEF Inserted
    <3>3. keys[k].order = NoOrder
      BY <1>7, <3>1 DEF KeyFree, Replay
    <3>4. row \in KeyRow
      BY <1>1 DEF KeyRow, RequestState
    <3> HIDE DEF row
    <3>5. keys'[k].order = x /\ \A l \in Key : l # k => keys'[l] = keys[l]
      BY <1>5, <3>2
    <3>6. Named(x)'
      BY <3>5 DEF Named
    <3>7. \A o \in OrderId : o # NoOrder
      BY CheckoutAssumption DEF OrderId, NoOrder
    <3>8. ASSUME NEW o \in OrderId \ {x}
          PROVE  Named(o)' <=> Named(o)
      <4>1. \A l \in Key : keys'[l].order = o <=> keys[l].order = o
        BY <3>3, <3>5, <3>7
      <4> QED
        BY <1>4, <4>1 DEF Named
    <3> QED
      BY <1>5, <1>6, <2>1, <2>3, <3>2, <3>4, <3>6, <3>8
  <2> QED
    BY <2>2, <2>3
<1>8. ASSUME UNCHANGED <<orders, keys>>
      PROVE  /\ orders' \in [OrderId -> OrderRow] /\ keys' \in [Key -> KeyRow]
             /\ \A o \in OrderId : orders'[o] = orders[o] /\ (Named(o)' <=> Named(o))
  BY <1>4, <1>5, <1>8 DEF Named
<1>9. (Inserted(r) /\ KeyFree(r)) \/ UNCHANGED <<orders, keys>>
  BY DEF SaveOrder
<1>10. (faulty => faulty') /\ faulty' \in BOOLEAN
  BY <1>1 DEF SaveOrder, Fine, Refused, Lost
<1>11. ASSUME NEW pc \in {"claim", "unwind"}, Goto(r, pc), pc = "claim" => req[r].op = "complete"
       PROVE  RequestsOK' /\ Others(r) /\ req'[r].pc = pc /\ req'[r].order = x
  BY <1>1, <1>3, <1>11, OrderGoto DEF OrderPc
<1>12. Done(r) => RequestsOK' /\ Others(r) /\ req'[r] = NoRequest /\ req'[r].order = NoOrder
  BY EndShape
<1>13. /\ RequestsOK' /\ Others(r) /\ req'[r].order \in {x, NoOrder}
       /\ req'[r].pc # "save order"
  BY <1>1, <1>2, <1>11, <1>12, NoRequestOK DEF SaveOrder
<1>14. answers' \subseteq Answer
  <2> DEFINE answer == [key |-> req[r].key, body |-> req[r].body, order |-> req[r].order]
  <2>1. req[r].op # "complete" => answer \in Answer
    BY <1>2, <1>3 DEF Answer
  <2>2. answers' = answers \/ (req[r].op # "complete" /\ answers' = answers \cup {answer})
    <3>1. CASE req[r].op = "complete"
      BY <3>1 DEF SaveOrder
    <3>2. CASE req[r].op # "complete"
      BY <3>2 DEF SaveOrder
    <3> QED
      BY <3>1, <3>2
  <2>3. answers \subseteq Answer
    BY <1>1 DEF Types
  <2> HIDE DEF answer
  <2> QED
    BY <2>1, <2>2, <2>3
<1>15. Types'
  BY <1>1, <1>4, <1>7, <1>8, <1>9, <1>10, <1>13, <1>14 DEF Types, RequestsOK
<1>16. Touches(r, x)
  <2>1. \A o \in OrderId \ {x} :
           /\ stock'[o] = stock[o] /\ orders'[o].status = orders[o].status
           /\ (Named(o)' <=> Named(o))
    BY <1>4, <1>7, <1>8, <1>9
  <2> QED
    BY <1>1, <1>3, <1>4, <1>13, <2>1, OwnTouched
<1>17. ASSUME UndoneInv, ~faulty'
       PROVE  Keeps(r, x)
  <2>1. ~faulty
    BY <1>10, <1>17
  <2>2. OrderStep(r)
    BY <1>1, <1>17, <2>1, HasOrder
  <2>3. orders[x].status = "none" /\ stock[x] = "active" /\ stock'[x] = "active"
    BY <1>1, <1>3, <1>4, <2>2 DEF OrderStep, At
  <2>4. CASE KeyFree(r) /\ Inserted(r) /\ req[r].op = "complete" /\ Goto(r, "claim")
    <3>1. req'[r].pc = "claim" /\ req'[r].order = x
      BY <1>11, <2>4
    <3>2. orders'[x].status = "pending" /\ ~Named(x)'
      BY <1>2, <1>7, <2>4
    <3>3. OrderStep(r)'
      <4>1. ~Named(req[r].order)'
        BY <3>1, <3>2 DEF Named
      <4> QED
        BY <2>3, <3>1, <3>2, <4>1 DEF OrderStep, At
    <3> QED
      BY <2>1, <3>1, <3>3 DEF Keeps
  <2>5. CASE KeyFree(r) /\ Inserted(r) /\ req[r].op # "complete" /\ Done(r)
    <3>1. req[r].key # NoKey
      BY <1>2, <2>5, CheckoutAssumption
    <3>2. orders'[x].status = "pending" /\ Named(x)'
      BY <1>7, <2>5, <3>1
    <3>3. Settled(x)'
      BY <2>3, <3>2 DEF Settled
    <3>4. OrderStep(r)'
      BY <1>12, <2>5, NoRequestOK DEF OrderStep, At, OrderPc
    <3> QED
      BY <2>1, <3>3, <3>4 DEF Keeps
  <2>6. CASE Goto(r, "unwind") /\ UNCHANGED <<orders, keys>>
    <3>1. req'[r].pc = "unwind" /\ req'[r].order = x
      BY <1>11, <2>6
    <3>2. orders'[x].status = "none" /\ ~Named(x)'
      BY <1>4, <1>8, <2>3, <2>6
    <3>3. OrderStep(r)'
      <4>1. ~Named(req[r].order)'
        BY <3>1, <3>2 DEF Named
      <4> QED
        BY <2>3, <3>1, <3>2, <4>1 DEF OrderStep, At
    <3> QED
      BY <2>1, <3>1, <3>3 DEF Keeps
  <2>7. ~Refused /\ ~Lost
    BY <1>17 DEF Refused, Lost
  <2> QED
    BY <2>4, <2>5, <2>6, <2>7 DEF SaveOrder
<1> QED
  BY <1>13, <1>15, <1>16, <1>17 DEF Keeps

LEMMA UnwindTouches ==
    ASSUME ShapeInv, NEW r \in Request, Unwind(r)
    PROVE  /\ Types' /\ RequestsOK'
           /\ \E x \in OrderId \cup {NoOrder} : Touches(r, x) /\ (UndoneInv => Keeps(r, x))
<1>1. /\ Types /\ req[r] \in RequestState /\ RequestOK(req[r]) /\ faulty \in BOOLEAN
      /\ req[r].pc = "unwind" /\ req[r].pc \in OrderPc
      /\ stock \in [OrderId -> {"none", "active", "released"}]
  BY DEF ShapeInv, Types, Unwind, At, OrderPc
<1>2. PICK x \in OrderId : x = req[r].order
  BY <1>1, HasOrder
<1>3. UNCHANGED <<sessions, orders, keys, nextOrder, claims, answers>>
  BY DEF Unwind
<1>4. /\ (stock' = [stock EXCEPT ![x] = "released"] /\ Fine) \/ (UNCHANGED stock /\ Refused)
      /\ (faulty => faulty') /\ faulty' \in BOOLEAN
  <2>1. (stock' = [stock EXCEPT ![x] = "released"] /\ Fine) \/ (UNCHANGED stock /\ Refused)
    BY <1>2 DEF Unwind, Fine, Refused
  <2>2. (faulty => faulty') /\ faulty' \in BOOLEAN
    BY <1>1, <2>1 DEF Fine, Refused
  <2> QED
    BY <2>1, <2>2
<1>5. CASE req[r].key = NoKey
  <2>1. RequestsOK' /\ Others(r) /\ req'[r] = NoRequest
    BY <1>5, EndShape DEF Unwind
  <2> QED
    BY <1>1, <1>2, <1>3, <1>4, <2>1, NoRequestOK, Released
<1>6. CASE req[r].key # NoKey
  <2>1. req[r].op = "create"
    BY <1>1, <1>6 DEF RequestOK
  <2>2. RequestsOK' /\ Others(r) /\ req'[r].pc = "find again" /\ req'[r].order = x
    BY <1>1, <1>2, <1>6, <2>1, OrderGoto DEF Unwind, OrderPc
  <2> QED
    BY <1>1, <1>2, <1>3, <1>4, <2>2, Released
<1> QED
  BY <1>5, <1>6

LEMMA ReleaseTouches ==
    ASSUME ShapeInv, NEW r \in Request, ReleaseReservation(r)
    PROVE  /\ Types' /\ RequestsOK'
           /\ \E x \in OrderId \cup {NoOrder} : Touches(r, x) /\ (UndoneInv => Keeps(r, x))
<1>1. req[r].pc = "release" /\ req[r].pc \in OrderPc
  BY DEF ReleaseReservation, At, OrderPc
<1>2. PICK x \in OrderId : x = req[r].order
  BY <1>1, HasOrder
<1>3. RequestsOK' /\ Others(r) /\ req'[r] = NoRequest
  BY EndShape DEF ReleaseReservation
<1>4. UNCHANGED <<sessions, orders, keys, nextOrder, claims, answers>>
  BY DEF ReleaseReservation
<1>5. (stock' = [stock EXCEPT ![x] = "released"] /\ Fine) \/ (UNCHANGED stock /\ Refused)
  BY <1>2 DEF ReleaseReservation, Fine, Refused
<1> QED
  BY <1>1, <1>2, <1>3, <1>4, <1>5, Released

LEMMA CancelTouches ==
    ASSUME ShapeInv, NEW r \in Request, CancelOrder(r)
    PROVE  /\ Types' /\ RequestsOK'
           /\ \E x \in OrderId \cup {NoOrder} : Touches(r, x) /\ (UndoneInv => Keeps(r, x))
<1>1. /\ Types /\ req[r] \in RequestState /\ RequestOK(req[r]) /\ faulty \in BOOLEAN
      /\ req[r].pc = "cancel" /\ req[r].pc \in OrderPc /\ req[r].op = "complete"
      /\ orders \in [OrderId -> OrderRow]
  BY DEF ShapeInv, Types, CancelOrder, At, OrderPc, RequestOK
<1>2. PICK x \in OrderId : x = req[r].order
  BY <1>1, HasOrder
<1>3. UNCHANGED <<sessions, keys, stock, nextOrder, claims, answers>>
  BY DEF CancelOrder
<1>4. \A o : Named(o)' <=> Named(o)
  BY <1>3 DEF Named
<1>5. CASE /\ orders' = [orders EXCEPT ![x].status = "canceled"]
           /\ Goto(r, "release") /\ Fine
  <2>1. RequestsOK' /\ Others(r) /\ req'[r].pc = "release" /\ req'[r].order = x
    BY <1>1, <1>2, <1>5, OrderGoto DEF OrderPc
  <2>2. /\ orders' \in [OrderId -> OrderRow]
        /\ orders'[x].status = "canceled"
        /\ \A o \in OrderId \ {x} : orders'[o] = orders[o]
    BY <1>1, <1>5 DEF OrderRow
  <2>3. Types'
    BY <1>1, <1>3, <1>5, <2>1, <2>2 DEF Types, RequestsOK, Fine
  <2>4. Touches(r, x)
    <3>1. \A o \in OrderId \ {x} :
             /\ stock'[o] = stock[o] /\ orders'[o].status = orders[o].status
             /\ (Named(o)' <=> Named(o))
      BY <1>3, <1>4, <2>2
    <3> QED
      BY <1>1, <1>2, <1>3, <2>1, <3>1, OwnTouched
  <2>5. ASSUME UndoneInv, ~faulty'
        PROVE  Keeps(r, x)
    <3>1. ~faulty
      BY <1>5, <2>5 DEF Fine
    <3>2. OrderStep(r)
      BY <1>1, <2>5, <3>1, HasOrder
    <3>3. stock'[x] = "active" /\ ~Named(x)
      BY <1>1, <1>2, <1>3, <3>2 DEF OrderStep, At
    <3>4. OrderStep(r)'
      <4>1. ~Named(req[r].order)'
        BY <1>4, <2>1, <3>3 DEF Named
      <4> QED
        BY <2>1, <2>2, <3>3, <4>1 DEF OrderStep, At
    <3> QED
      BY <2>1, <3>1, <3>4 DEF Keeps
  <2> QED
    BY <2>1, <2>3, <2>4, <2>5 DEF Keeps
<1>6. CASE UNCHANGED orders /\ Done(r) /\ Refused
  <2>1. RequestsOK' /\ Others(r) /\ req'[r] = NoRequest /\ req'[r].order = NoOrder
    BY <1>6, EndShape
  <2>2. Types'
    BY <1>1, <1>3, <1>6, <2>1 DEF Types, RequestsOK, Refused
  <2>3. Touches(r, x)
    <3>1. \A o \in OrderId \ {x} :
             /\ stock'[o] = stock[o] /\ orders'[o].status = orders[o].status
             /\ (Named(o)' <=> Named(o))
      BY <1>3, <1>4, <1>6
    <3> QED
      BY <1>1, <1>2, <1>3, <2>1, <3>1, NoRequestOK, OwnTouched
  <2>4. Keeps(r, x)
    BY <1>6 DEF Keeps, Refused
  <2> QED
    BY <2>1, <2>2, <2>3, <2>4
<1> QED
  BY <1>2, <1>5, <1>6 DEF CancelOrder

LEMMA ClaimTouches ==
    ASSUME ShapeInv, NEW r \in Request, CompleteCheckoutSessionIfOpen(r)
    PROVE  /\ Types' /\ RequestsOK'
           /\ \E x \in OrderId \cup {NoOrder} : Touches(r, x) /\ (UndoneInv => Keeps(r, x))
<1>1. /\ Types /\ req[r] \in RequestState /\ RequestOK(req[r]) /\ faulty \in BOOLEAN
      /\ req[r].pc = "claim" /\ req[r].pc \in OrderPc /\ req[r].op = "complete"
      /\ sessions \in [Session -> CheckoutSession] /\ claims \in [Session -> SUBSET OrderId]
  BY DEF ShapeInv, Types, CompleteCheckoutSessionIfOpen, At, OrderPc, RequestOK
<1>2. PICK x \in OrderId : x = req[r].order
  BY <1>1, HasOrder
<1>3. PICK s \in Session : s = req[r].ses
  BY <1>1, HasOrder
<1>4. UNCHANGED <<orders, keys, stock, nextOrder, answers>>
  BY DEF CompleteCheckoutSessionIfOpen
<1>5. ASSUME Claimed(r)
      PROVE  /\ sessions' \in [Session -> CheckoutSession] /\ claims' \in [Session -> SUBSET OrderId]
             /\ \A o \in OrderId \ {x} : Named(o)' <=> Named(o)
             /\ Named(x)'
  <2>1. /\ sessions' = [sessions EXCEPT ![s].status = "completed", ![s].order = x]
        /\ claims' = [claims EXCEPT ![s] = @ \cup {x}]
    BY <1>2, <1>3, <1>5 DEF Claimed
  <2>2. sessions' \in [Session -> CheckoutSession]
    BY <1>1, <2>1 DEF CheckoutSession
  <2>3. claims' \in [Session -> SUBSET OrderId]
    BY <1>1, <2>1
  <2>4. Named(x)'
    BY <1>1, <2>1 DEF Named
  <2>5. \A o \in OrderId \ {x} : Named(o)' <=> Named(o)
    BY <1>1, <1>4, <2>1 DEF Named
  <2> QED
    BY <2>2, <2>3, <2>4, <2>5
<1>6. ASSUME UNCHANGED <<sessions, claims>>
      PROVE  /\ sessions' \in [Session -> CheckoutSession] /\ claims' \in [Session -> SUBSET OrderId]
             /\ \A o : Named(o)' <=> Named(o)
  BY <1>1, <1>4, <1>6 DEF Named
<1>7. Claimed(r) \/ UNCHANGED <<sessions, claims>>
  BY DEF CompleteCheckoutSessionIfOpen
<1>8. (faulty => faulty') /\ faulty' \in BOOLEAN
  BY <1>1 DEF CompleteCheckoutSessionIfOpen, Fine, Refused, Lost
<1>9. Done(r) => RequestsOK' /\ Others(r) /\ req'[r] = NoRequest /\ req'[r].order = NoOrder
  BY EndShape
<1>10. Goto(r, "cancel") => RequestsOK' /\ Others(r) /\ req'[r].pc = "cancel" /\ req'[r].order = x
  BY <1>1, <1>2, OrderGoto DEF OrderPc
<1>11. /\ RequestsOK' /\ Others(r) /\ req'[r].order \in {x, NoOrder}
       /\ req'[r].pc # "save order"
  BY <1>9, <1>10, NoRequestOK DEF CompleteCheckoutSessionIfOpen
<1>12. Types'
  BY <1>1, <1>4, <1>5, <1>6, <1>7, <1>8, <1>11 DEF Types, RequestsOK
<1>13. Touches(r, x)
  <2>1. \A o \in OrderId \ {x} :
           /\ stock'[o] = stock[o] /\ orders'[o].status = orders[o].status
           /\ (Named(o)' <=> Named(o))
    BY <1>4, <1>5, <1>6, <1>7
  <2> QED
    BY <1>1, <1>2, <1>4, <1>11, <2>1, OwnTouched
<1>14. ASSUME UndoneInv, ~faulty'
       PROVE  Keeps(r, x)
  <2>1. ~faulty
    BY <1>8, <1>14
  <2>2. OrderStep(r)
    BY <1>1, <1>14, <2>1, HasOrder
  <2>3. orders'[x].status = "pending" /\ stock'[x] = "active" /\ ~Named(x)
    BY <1>1, <1>2, <1>4, <2>2 DEF OrderStep, At
  <2>4. CASE Claimed(r) /\ Done(r)
    <3>1. Settled(x)'
      BY <1>5, <2>3, <2>4 DEF Settled
    <3>2. OrderStep(r)'
      BY <1>9, <2>4, NoRequestOK DEF OrderStep, At, OrderPc
    <3> QED
      BY <2>1, <3>1, <3>2 DEF Keeps
  <2>5. CASE UNCHANGED <<sessions, claims>> /\ Goto(r, "cancel")
    <3>1. req'[r].pc = "cancel" /\ req'[r].order = x /\ ~Named(x)'
      BY <1>6, <1>10, <2>3, <2>5
    <3>2. OrderStep(r)'
      <4>1. ~Named(req[r].order)'
        BY <3>1 DEF Named
      <4> QED
        BY <2>3, <3>1, <4>1 DEF OrderStep, At
    <3> QED
      BY <2>1, <3>1, <3>2 DEF Keeps
  <2>6. ~Refused /\ ~Lost
    BY <1>14 DEF Refused, Lost
  <2> QED
    BY <2>4, <2>5, <2>6 DEF CompleteCheckoutSessionIfOpen
<1> QED
  BY <1>11, <1>12, <1>13, <1>14 DEF Keeps

LEMMA CrashTouches ==
    ASSUME ShapeInv, NEW r \in Request, Crash(r)
    PROVE  /\ Types' /\ RequestsOK'
           /\ \E x \in OrderId \cup {NoOrder} : Touches(r, x) /\ (UndoneInv => Keeps(r, x))
<1>1. /\ UNCHANGED <<sessions, orders, keys, stock, nextOrder, claims, answers>>
      /\ faulty' = TRUE
  BY DEF Crash, tables
<1>2. RequestsOK' /\ Others(r) /\ req'[r] = NoRequest /\ req'[r].order = NoOrder
  BY EndShape DEF Crash
<1>3. Types'
  BY <1>1, <1>2 DEF ShapeInv, Types, RequestsOK
<1>4. RequestOK(req[r])
  BY DEF ShapeInv
<1>5. CASE req[r].order = NoOrder
  BY <1>1, <1>2, <1>3, <1>5, NoneTouched
<1>6. CASE req[r].order # NoOrder
  <2>1. req[r].pc \in OrderPc
    BY <1>4, <1>6 DEF RequestOK
  <2>2. PICK x \in OrderId : x = req[r].order
    BY <2>1, HasOrder
  <2>3. \A o \in OrderId \ {x} :
           /\ stock'[o] = stock[o] /\ orders'[o].status = orders[o].status
           /\ (Named(o)' <=> Named(o))
    BY <1>1 DEF Named
  <2>4. Touches(r, x)
    BY <1>1, <1>2, <2>1, <2>2, <2>3, NoRequestOK, OwnTouched
  <2>5. Keeps(r, x)
    BY <1>1 DEF Keeps
  <2> QED
    BY <1>2, <1>3, <2>4, <2>5
<1> QED
  BY <1>5, <1>6

-----------------------------------------------------------------------------
(* Orders and answers.                                                     *)

\* The steps of a request.
Step(r) ==
    \/ Reads(r) \/ Saves(r) \/ loadIdempotentOrder(r) \/ Reserve(r) \/ SaveOrder(r)
    \/ Unwind(r) \/ CompleteCheckoutSessionIfOpen(r) \/ CancelOrder(r)
    \/ ReleaseReservation(r) \/ Crash(r)

\* A step that is none of a request's.
Outside ==
    \/ \E s \in Session : CreateCheckoutSession(s) \/ Expire(s)
    \/ UNCHANGED vars

LEMMA NextIs ==
    ASSUME [Next]_vars
    PROVE  Outside \/ \E r \in Request : Step(r)
<1>1. CASE UNCHANGED vars
  BY <1>1 DEF Outside
<1>2. CASE \E s \in Session : CreateCheckoutSession(s) \/ Expire(s)
  BY <1>2 DEF Outside
<1>3. ASSUME NEW r \in Request, SaveBack(r) \/ SaveCheckoutSession(r)
      PROVE  Step(r)
  BY <1>3, SavesAre DEF Step
<1> QED
  BY <1>1, <1>2, <1>3 DEF Next, Step, Reads

LEMMA OutsideKeeps ==
    ASSUME ShapeInv, Outside
    PROVE  /\ UNCHANGED <<orders, keys, stock, nextOrder, req, claims, answers, faulty>>
           /\ sessions' \in [Session -> CheckoutSession]
<1>1. UNCHANGED <<orders, keys, stock, nextOrder, req, claims, answers, faulty>>
  BY DEF Outside, CreateCheckoutSession, Expire, tables, history, vars
<1>2. sessions \in [Session -> CheckoutSession]
  BY DEF ShapeInv, Types
<1>3. ASSUME NEW s \in Session, CreateCheckoutSession(s)
      PROVE  sessions' \in [Session -> CheckoutSession]
  BY <1>2, <1>3 DEF CreateCheckoutSession, CheckoutSession
<1> QED
  BY <1>1, <1>2, <1>3 DEF Outside, Expire, tables, vars

LEMMA ShapeInductive ==
    ASSUME ShapeInv, [Next]_vars
    PROVE  ShapeInv' /\ (UndoneInv => UndoneInv')
<1>1. CASE Outside
  <2>1. /\ UNCHANGED <<orders, keys, stock, nextOrder, req, claims, answers, faulty>>
        /\ sessions' \in [Session -> CheckoutSession]
    BY <1>1, OutsideKeeps
  <2>2. Types' /\ (\A r \in Request : RequestOK(req'[r]))
    BY <2>1 DEF ShapeInv, Types
  <2>3. OwnersOK'
    BY <2>1 DEF ShapeInv, OwnersOK, Named, At
  <2>4. UndoneInv => UndoneInv'
    <3>1. LosersAreUndone' <=> LosersAreUndone
      BY <2>1 DEF LosersAreUndone
    <3>2. ASSUME NEW r \in Request
          PROVE  OrderStep(r)' <=> OrderStep(r)
      BY <2>1 DEF OrderStep, Named, At
    <3>3. faulty' = faulty
      BY <2>1
    <3> QED
      BY <3>1, <3>2, <3>3 DEF UndoneInv
  <2> QED
    BY <2>2, <2>3, <2>4 DEF ShapeInv
<1>2. ASSUME NEW r \in Request, Step(r)
      PROVE  ShapeInv' /\ (UndoneInv => UndoneInv')
  <2>1. /\ Types' /\ RequestsOK'
        /\ \E x \in OrderId \cup {NoOrder} : Touches(r, x) /\ (UndoneInv => Keeps(r, x))
    BY <1>2, ReadsTouch, SavesTouch, LoadTouches, ReserveTouches, SaveOrderTouches,
       UnwindTouches, ClaimTouches, CancelTouches, ReleaseTouches, CrashTouches DEF Step
  <2>2. PICK x \in OrderId \cup {NoOrder} : Touches(r, x) /\ (UndoneInv => Keeps(r, x))
    BY <2>1
  <2> QED
    BY <2>1, <2>2, ShapeStep
<1> QED
  BY <1>1, <1>2, NextIs

LEMMA ShapeInit == Init => ShapeInv /\ UndoneInv /\ AnswersInv
<1> SUFFICES ASSUME Init
             PROVE  ShapeInv /\ UndoneInv /\ AnswersInv
  OBVIOUS
<1>1. NoSession \in CheckoutSession /\ NoOrderRow \in OrderRow
  BY DEF NoSession, CheckoutSession, NoOrderRow, OrderRow
<1>2. Types
  <2>1. /\ sessions \in [Session -> CheckoutSession] /\ orders \in [OrderId -> OrderRow]
        /\ req \in [Request -> RequestState] /\ claims \in [Session -> SUBSET OrderId]
    BY <1>1, NoRequestOK DEF Init
  <2>2. /\ keys \in [Key -> KeyRow] /\ stock \in [OrderId -> {"none", "active", "released"}]
        /\ answers \subseteq Answer
    BY DEF Init, KeyRow
  <2>3. nextOrder \in 1..(MaxOrders + 1)
    BY CheckoutAssumption DEF Init
  <2>4. faulty \in BOOLEAN
    BY DEF Init
  <2> QED
    BY <2>1, <2>2, <2>3, <2>4 DEF Types
<1>3. \A r \in Request : req[r] = NoRequest /\ req[r].order = NoOrder
  BY NoRequestOK DEF Init
<1>4. \A o \in OrderId : o # NoOrder
  BY CheckoutAssumption DEF OrderId, NoOrder
<1>5. \A o \in OrderId : ~Named(o) /\ stock[o] = "none" /\ orders[o].status = "none"
  BY <1>4 DEF Init, Named, NoOrderRow
<1>6. OwnersOK
  <2>1. \A r \in Request : req[r].order < nextOrder
    BY <1>3 DEF Init, NoOrder
  <2>2. \A r \in Request : ~At(r, "save order")
    BY <1>3, NoRequestOK DEF At
  <2> QED
    BY <1>3, <1>5, <2>1, <2>2 DEF OwnersOK
<1>7. UndoneInv
  <2>1. \A r \in Request : OrderStep(r)
    BY <1>3, NoRequestOK DEF OrderStep, At, OrderPc
  <2>2. LosersAreUndone
    BY <1>5 DEF LosersAreUndone, Named
  <2> QED
    BY <2>1, <2>2 DEF UndoneInv
<1>8. AnswersInv
  BY DEF Init, AnswersInv
<1> QED
  BY <1>2, <1>3, <1>6, <1>7, <1>8, NoRequestOK DEF ShapeInv

LEMMA ShapeHolds == Spec => [](ShapeInv /\ UndoneInv)
<1>1. Init => ShapeInv /\ UndoneInv
  BY ShapeInit
<1>2. ShapeInv /\ UndoneInv /\ [Next]_vars => (ShapeInv /\ UndoneInv)'
  BY ShapeInductive
<1> QED
  BY <1>1, <1>2, PTL DEF Spec

\* Whatever requests compete for a session or a key, and in whatever order their calls
\* reach the database: as long as no call fails and no process stops, every order
\* nobody is working on any more is either pending, holds its stock and is named by a
\* session or a key, or it was canceled or never saved and holds nothing.
THEOREM LosersAreUndoneHolds == Spec => []LosersAreUndone
<1>1. ShapeInv /\ UndoneInv => LosersAreUndone
  BY DEF ShapeInv, Types, UndoneInv, LosersAreUndone
<1> QED
  BY <1>1, ShapeHolds, PTL

LEMMA AnswersInductive ==
    ASSUME ShapeInv, AnswersInv, [Next]_vars
    PROVE  AnswersInv'
<1>1. Types
  BY DEF ShapeInv
<1>2. CASE UNCHANGED <<answers, keys>>
  BY <1>2 DEF AnswersInv
<1>3. ASSUME NEW r \in Request, loadIdempotentOrder(r)
      PROVE  AnswersInv'
  <2>1. keys' = keys
    BY <1>3 DEF loadIdempotentOrder, tables
  <2>2. CASE answers' = answers
    BY <2>1, <2>2 DEF AnswersInv
  <2>3. CASE answers' # answers
    <3> DEFINE answer == [key |-> req[r].key, body |-> req[r].body,
                          order |-> keys[req[r].key].order]
    <3>1. Replay(r) /\ keys[req[r].key].body = req[r].body /\ answers' = answers \cup {answer}
      BY <1>3, <2>3 DEF loadIdempotentOrder
    <3>2. keys[req[r].key] \in KeyRow
      BY <1>1, <3>1 DEF Replay, Types
    <3>3. keys[answer.key] = [order |-> answer.order, body |-> answer.body]
      BY <3>1, <3>2 DEF KeyRow
    <3> HIDE DEF answer
    <3> QED
      BY <2>1, <3>1, <3>3 DEF AnswersInv
  <2> QED
    BY <2>2, <2>3
<1>4. ASSUME NEW r \in Request, SaveOrder(r)
      PROVE  AnswersInv'
  <2> DEFINE answer == [key |-> req[r].key, body |-> req[r].body, order |-> req[r].order]
  <2>1. /\ RequestOK(req[r]) /\ req[r].pc = "save order" /\ req[r].pc \in OrderPc
        /\ keys \in [Key -> KeyRow] /\ answers \subseteq Answer
    BY <1>1, <1>4 DEF ShapeInv, SaveOrder, At, Types, OrderPc
  <2>2. CASE UNCHANGED <<keys, answers>>
    BY <2>2 DEF AnswersInv
  <2>3. CASE /\ KeyFree(r) /\ Inserted(r)
             /\ \/ answers' = answers
                \/ req[r].op # "complete" /\ answers' = answers \cup {answer}
    <3>1. CASE req[r].key = NoKey
      <4>1. keys' = keys
        BY <2>3, <3>1 DEF Inserted
      <4>2. req[r].op = "complete"
        BY <2>1, <3>1, HasOrder, CheckoutAssumption
      <4> QED
        BY <2>3, <4>1, <4>2 DEF AnswersInv
    <3>2. CASE req[r].key # NoKey
      <4>1. PICK k \in Key : k = req[r].key
        BY <1>1, <3>2 DEF Types, RequestState
      <4>2. keys' = [keys EXCEPT ![k] = [order |-> req[r].order, body |-> req[r].body]]
        BY <2>3, <3>2, <4>1 DEF Inserted
      <4>3. keys[k].order = NoOrder
        BY <2>3, <4>1 DEF KeyFree, Replay
      <4>4. \A a \in answers : a.key # k /\ a.key \in Key
        <5>1. ASSUME NEW a \in answers
              PROVE  a.key # k /\ a.key \in Key
          <6>1. a.key \in Key /\ a.order \in OrderId /\ keys[a.key].order = a.order
            <7> HIDE DEF answer
            <7>1. a \in Answer
              BY <2>1
            <7>2. keys[a.key] = [order |-> a.order, body |-> a.body]
              BY DEF AnswersInv
            <7> QED
              BY <7>1, <7>2 DEF Answer
          <6>2. a.order # NoOrder
            BY <6>1, CheckoutAssumption DEF OrderId, NoOrder
          <6> QED
            BY <4>3, <6>1, <6>2
        <5> QED
          BY <5>1
      <4>5. \A a \in answers : keys'[a.key] = keys[a.key]
        BY <2>1, <4>2, <4>4
      <4>6. keys'[answer.key] = [order |-> answer.order, body |-> answer.body]
        BY <2>1, <4>1, <4>2
      <4> HIDE DEF answer
      <4> QED
        BY <2>3, <4>5, <4>6 DEF AnswersInv
    <3> QED
      BY <3>1, <3>2
  <2>4. \/ UNCHANGED <<keys, answers>>
        \/ /\ KeyFree(r) /\ Inserted(r)
           /\ \/ answers' = answers
              \/ req[r].op # "complete" /\ answers' = answers \cup {answer}
    <3>1. CASE req[r].op = "complete"
      BY <1>4, <3>1 DEF SaveOrder
    <3>2. CASE req[r].op # "complete"
      BY <1>4, <3>2 DEF SaveOrder
    <3> QED
      BY <3>1, <3>2
  <2> QED
    BY <2>2, <2>3, <2>4
<1>5. ASSUME NEW r \in Request, Step(r)
      PROVE  loadIdempotentOrder(r) \/ SaveOrder(r) \/ UNCHANGED <<answers, keys>>
  BY <1>5 DEF Step, Reads, GetCheckoutSession, getOpenCheckoutSession, priceItems, Redeem,
              checkoutSession, createOrder, Saves, Reserve, Unwind,
              CompleteCheckoutSessionIfOpen, CancelOrder, ReleaseReservation, Crash,
              tables, history
<1>6. Outside => UNCHANGED <<answers, keys>>
  BY OutsideKeeps
<1> QED
  BY <1>2, <1>3, <1>4, <1>5, <1>6, NextIs

\* Under every interleaving and every fault the creates that succeed with one
\* idempotency key are answered with one order, for one body: the row of the key is
\* inserted once, in the transaction of its order, and never rewritten.
THEOREM AnswersAgreeHolds == Spec => []AnswersAgree
<1>1. Init => AnswersInv
  BY ShapeInit
<1>2. ShapeInv /\ AnswersInv /\ [Next]_vars => AnswersInv'
  BY AnswersInductive
<1>3. ShapeInv /\ AnswersInv => AnswersAgree
  <2> SUFFICES ASSUME ShapeInv, AnswersInv, NEW a \in answers, NEW b \in answers, a.key = b.key
               PROVE  a = b
    BY DEF AnswersAgree
  <2>1. a \in Answer /\ b \in Answer
    BY DEF ShapeInv, Types
  <2>2. /\ keys[a.key] = [order |-> a.order, body |-> a.body]
        /\ keys[b.key] = [order |-> b.order, body |-> b.body]
    BY DEF AnswersInv
  <2>3. a.order = b.order /\ a.body = b.body
    BY <2>2
  <2> QED
    BY <2>1, <2>3 DEF Answer
<1> QED
  BY <1>1, <1>2, <1>3, ShapeHolds, PTL DEF Spec

-----------------------------------------------------------------------------
(* Sessions and their orders.                                              *)

\* The lines and the discount of an order are written once: a step of r changes
\* none that somebody was told of, or that another request works on.
RowsStable(r) ==
    \A o \in OrderId :
        Named(o) \/ (\E q \in Request \ {r} : req[q].order = o) =>
            orders'[o].items = orders[o].items /\ orders'[o].discounted = orders[o].discounted

LEMMA StepRowsStable ==
    ASSUME ShapeInv, NEW r \in Request, Step(r)
    PROVE  RowsStable(r)
<1>1. Types /\ orders \in [OrderId -> OrderRow]
  BY DEF ShapeInv, Types
<1>2. CASE UNCHANGED orders
  BY <1>2 DEF RowsStable
<1>3. CASE CancelOrder(r)
  <2>1. \/ orders' = [orders EXCEPT ![req[r].order].status = "canceled"]
        \/ orders' = orders
    BY <1>3 DEF CancelOrder
  <2>2. \A o \in OrderId :
           orders'[o].items = orders[o].items /\ orders'[o].discounted = orders[o].discounted
    BY <1>1, <2>1 DEF OrderRow
  <2> QED
    BY <2>2 DEF RowsStable
<1>4. CASE SaveOrder(r)
  <2>1. req[r].pc = "save order" /\ req[r].pc \in OrderPc
    BY <1>4 DEF SaveOrder, At, OrderPc
  <2>2. PICK x \in OrderId : x = req[r].order
    BY <2>1, HasOrder
  <2>3. x # NoOrder
    BY <2>1, <2>2, HasOrder
  <2>4. ~Named(x) /\ \A q \in Request \ {r} : req[q].order # x
    BY <2>1, <2>2, <2>3 DEF ShapeInv, OwnersOK, At
  <2>5. orders' = orders \/ orders' = [orders EXCEPT ![x] = NewRow(r)]
    BY <1>4, <2>2 DEF SaveOrder, Inserted
  <2>6. \A o \in OrderId \ {x} : orders'[o] = orders[o]
    BY <1>1, <2>5
  <2>7. ASSUME NEW o \in OrderId, Named(o) \/ \E q \in Request \ {r} : req[q].order = o
        PROVE  o # x
    BY <2>4, <2>7
  <2> QED
    BY <2>6, <2>7 DEF RowsStable
<1> QED
  BY <1>2, <1>3, <1>4 DEF Step, Reads, GetCheckoutSession, getOpenCheckoutSession, priceItems,
     Redeem, checkoutSession, createOrder, Saves, Reserve, Unwind, loadIdempotentOrder,
     CompleteCheckoutSessionIfOpen, ReleaseReservation, Crash, tables

\* A row nobody writes to.
LEMMA RowKept ==
    ASSUME ShapeInv, NEW r \in Request, RowsStable(r), NEW s \in Session, RowOK(s),
           sessions'[s] = sessions[s], claims'[s] = claims[s]
    PROVE  RowOK(s)'
<1>1. claims[s] \subseteq OrderId
  BY DEF ShapeInv, Types
<1>2. ASSUME sessions[s].status = "completed"
      PROVE  LET o == sessions[s].order
             IN  orders'[o].items = orders[o].items /\ orders'[o].discounted = orders[o].discounted
  <2>1. PICK o \in OrderId : o = sessions[s].order /\ o \in claims[s]
    BY <1>1, <1>2 DEF RowOK
  <2>2. Named(o)
    BY <2>1 DEF Named
  <2> QED
    BY <2>1, <2>2 DEF RowsStable
<1>3. Matches(sessions[s]) /\ SessionOK(sessions[s])
  BY DEF RowOK
<1>4. Matches(sessions[s])'
  BY <1>2, <1>3 DEF Matches
<1> QED
  BY <1>3, <1>4 DEF RowOK, SessionOK

\* Another request's copy stays right when its session changes as far as its own
\* work allows.
LEMMA CopyKept ==
    ASSUME ShapeInv, NEW r \in Request, RowsStable(r), NEW q \in Request \ {r}, CopyOK(q),
           req'[q] = req[q],
           req[q].op \in Edits \cup {"get", "complete"} =>
              LET s == req[q].ses
              IN  /\ sessions'[s].status = "none" => sessions[s].status = "none"
                  /\ claims[s] \subseteq claims'[s]
                  /\ req[q].op \in Edits => claims'[s] = claims[s]
                  /\ req[q].op = "complete" /\ sessions'[s].status = "open" =>
                        sessions'[s] = sessions[s]
    PROVE  CopyOK(q)'
<1> DEFINE job == req[q]
           s == job.ses
<1>1. RequestOK(job) /\ Types
  BY DEF ShapeInv
<1>2. SessionOK(job.copy)
  BY DEF CopyOK
<1>3. CASE job.op \notin Edits \cup {"get", "complete"}
  <2>1. job.pc \notin SessionPc /\ job.op # "complete" /\ job.pc # "claim"
    BY <1>1, <1>3 DEF RequestOK, SessionPc, RequestState, Op, ShapeInv, Types
  <2>2. job.pc # "save back"
    BY <2>1 DEF SessionPc
  <2> HIDE DEF job
  <2>3. req'[q] = job
    BY DEF job
  <2>4. SessionOK(req'[q].copy)
    BY <1>2, <2>3
  <2> QED
    BY <1>2, <1>3, <2>1, <2>2, <2>3, <2>4 DEF CopyOK, SessionOK
<1>4. CASE job.op \in Edits \cup {"get", "complete"}
  <2>1. /\ sessions'[s].status = "none" => sessions[s].status = "none"
        /\ claims[s] \subseteq claims'[s]
        /\ job.op \in Edits => claims'[s] = claims[s]
        /\ job.op = "complete" /\ sessions'[s].status = "open" => sessions'[s] = sessions[s]
    BY <1>4
  <2>2. s \in Session /\ claims[s] \subseteq OrderId
    BY <1>1, <1>4 DEF RequestOK, Types
  <2>3. ASSUME job.pc = "save back"
        PROVE  /\ job.copy.status \in {"completed", "expired"}
               /\ job.copy.status = "completed" => job.copy.order \in claims'[s]
               /\ Matches(job.copy) /\ (Matches(req[q].copy))'
    <3>1. /\ job.copy.status \in {"completed", "expired"} /\ Matches(job.copy)
          /\ job.copy.status = "completed" => job.copy.order \in claims[s]
      BY <2>3 DEF CopyOK
    <3>2. CASE job.copy.status # "completed"
      BY <3>1, <3>2 DEF Matches
    <3>3. CASE job.copy.status = "completed"
      <4>1. PICK o \in OrderId : o = job.copy.order /\ o \in claims[s]
        BY <2>2, <3>1, <3>3
      <4>2. Named(o)
        BY <2>2, <4>1 DEF Named
      <4>3. orders'[o].items = orders[o].items /\ orders'[o].discounted = orders[o].discounted
        BY <4>2 DEF RowsStable
      <4> QED
        BY <2>1, <3>1, <4>1, <4>3 DEF Matches
    <3> QED
      BY <3>2, <3>3
  <2>4. ASSUME job.pc = "claim"
        PROVE  /\ orders'[job.order].items = job.copy.items
               /\ orders'[job.order].discounted = job.discount
    <3>1. job.pc \in OrderPc
      BY <2>4 DEF OrderPc
    <3>2. PICK o \in OrderId : o = req[q].order
      BY <3>1, HasOrder
    <3>3. orders'[o].items = orders[o].items /\ orders'[o].discounted = orders[o].discounted
      BY <3>2 DEF RowsStable
    <3> QED
      BY <2>4, <3>2, <3>3 DEF CopyOK
  <2>5. sessions'[s].status # "none"
    BY <1>4, <2>1 DEF CopyOK
  <2>6. ASSUME job.op \in Edits, job.pc \in {"price", "redeem", "save"}
        PROVE  job.copy.status = "open" /\ claims'[s] = {}
    BY <2>1, <2>6 DEF CopyOK
  <2>7. ASSUME job.op = "complete", sessions'[s].status = "open",
               job.pc \in {"price", "redeem", "reserve", "save order", "claim"}
        PROVE  /\ sessions'[s].items = job.copy.items
               /\ (sessions'[s].discounted => job.copy.discounted)
    BY <2>1, <2>7 DEF CopyOK
  <2>8. job.op = "complete" /\ job.pc \in {"reserve", "save order", "claim"} =>
              (job.copy.discounted => job.discount)
    BY DEF CopyOK
  <2>9. SessionOK(req[q].copy)'
    BY <1>2 DEF SessionOK
  <2> QED
    BY <2>3, <2>4, <2>5, <2>6, <2>7, <2>8, <2>9 DEF CopyOK
<1> QED
  BY <1>3, <1>4

\* A request that ends, or keeps what it is about, stays apart from the others.
LEMMA ApartKept ==
    ASSUME ApartOK, NEW r \in Request, Others(r), req'[r] = NoRequest \/ Same(r)
    PROVE  ApartOK'
<1>1. req'[r].op \in Edits \cup {"complete"} => Same(r)
  BY NoRequestOK DEF Edits
<1>2. ASSUME NEW p \in Request, NEW q \in Request, p # q,
             req'[p].op \in Edits, req'[q].op \in Edits \cup {"complete"}
      PROVE  req'[p].ses # req'[q].ses
  <2>1. req'[p].op = req[p].op /\ req'[p].ses = req[p].ses
    BY <1>1, <1>2 DEF Others, Same
  <2>2. req'[q].op = req[q].op /\ req'[q].ses = req[q].ses
    BY <1>1, <1>2 DEF Others, Same
  <2> QED
    BY <1>2, <2>1, <2>2 DEF ApartOK
<1> QED
  BY <1>2 DEF ApartOK

LEMMA EndCopy ==
    ASSUME NEW r \in Request, req'[r] = NoRequest
    PROVE  CopyOK(r)'
<1>1. /\ req'[r].pc = "idle" /\ req'[r].op = "none" /\ req'[r].copy = NoSession
  BY NoRequestOK
<1>2. SessionOK(req[r].copy)'
  BY <1>1 DEF SessionOK, NoSession
<1> QED
  BY <1>1, <1>2 DEF CopyOK, Edits

\* A step that leaves the sessions alone.
LEMMA QuietStep ==
    ASSUME ShapeInv, SessionInv, NEW r \in Request, RowsStable(r), Others(r),
           UNCHANGED <<sessions, claims>>, CopyOK(r)', req'[r] = NoRequest \/ Same(r)
    PROVE  SessionInv'
<1>1. \A s \in Session : RowOK(s)'
  BY RowKept DEF SessionInv, RowsOK
<1>2. \A q \in Request \ {r} : CopyOK(q)'
  BY CopyKept DEF SessionInv, Others
<1>3. ApartOK'
  BY ApartKept DEF SessionInv
<1> QED
  BY <1>1, <1>2, <1>3 DEF SessionInv, RowsOK

\* A step that ends a request or sets it on the way back, without the session.
LEMMA BackStep ==
    ASSUME ShapeInv, SessionInv, NEW r \in Request, RowsStable(r), Others(r),
           UNCHANGED <<sessions, claims>>,
           \/ req'[r] = NoRequest
           \/ /\ Same(r) /\ req'[r].copy = req[r].copy
              /\ req'[r].pc \in {"unwind", "find again", "cancel", "release"}
    PROVE  SessionInv'
<1>1. CASE req'[r] = NoRequest
  BY <1>1, EndCopy, QuietStep
<1>2. CASE /\ Same(r) /\ req'[r].copy = req[r].copy
           /\ req'[r].pc \in {"unwind", "find again", "cancel", "release"}
  <2>1. CopyOK(r)
    BY DEF SessionInv
  <2>2. SessionOK(req[r].copy)'
    BY <1>2, <2>1 DEF CopyOK, SessionOK
  <2>3. CopyOK(r)'
    BY <1>2, <2>1, <2>2 DEF CopyOK, Same
  <2> QED
    BY <1>2, <2>3, QuietStep
<1> QED
  BY <1>1, <1>2

\* The operations on a session, as far as the promises go.
LEMMA SessionOps ==
    ASSUME NEW session \in CheckoutSession, SessionOK(session), NEW items \in SUBSET Variant
    PROVE  \A copy \in {SetItems(session, items), UpsertItem(session, items),
                        RemoveItem(session, items), RemoveItemBySkuID(session, items),
                        ApplyCoupon(session)} :
              SessionOK(copy) /\ copy.status = session.status
  BY DEF SetItems, UpsertItem, RemoveItem, RemoveItemBySkuID, ApplyCoupon, CheckoutSession,
         SessionOK

LEMMA AccessSession ==
    ASSUME ShapeInv, SessionInv, ~EditsOverlap, NEW r \in Request, NEW s \in Session,
           checkoutSession(r, s), RowsStable(r)
    PROVE  SessionInv'
<1>1. /\ Others(r)
      /\ req'[r].pc = "access" /\ req'[r].ses = s /\ req'[r].copy = NoSession
      /\ req'[r].op \in Edits \cup {"get", "complete"}
      /\ req'[r].op \in Edits => ~Overlaps(s, Edits \cup {"complete"})
      /\ req'[r].op = "complete" => ~Overlaps(s, Edits)
  BY AccessShape
<1>2. /\ UNCHANGED <<sessions, claims>> /\ sessions[s] # NoSession
  BY DEF checkoutSession, tables, history
<1>3. \A t \in Session : RowOK(t)'
  BY <1>2, RowKept DEF SessionInv, RowsOK
<1>4. \A q \in Request \ {r} : CopyOK(q)'
  BY <1>1, <1>2, CopyKept DEF SessionInv, Others
<1>5. CopyOK(r)'
  <2>1. sessions'[s].status # "none"
    BY <1>2 DEF SessionInv, RowsOK, RowOK
  <2>2. SessionOK(req[r].copy)'
    BY <1>1 DEF SessionOK, NoSession
  <2> QED
    BY <1>1, <2>1, <2>2 DEF CopyOK
<1>6. ASSUME NEW q \in Request \ {r}, NEW ops \in {Edits, Edits \cup {"complete"}},
             ~Overlaps(s, ops), req[q].op \in ops
      PROVE  req[q].ses # s
  <2>1. RequestOK(req[q])
    BY DEF ShapeInv
  <2>2. req[q].pc # "idle"
    BY <1>6, <2>1, NoRequestOK DEF RequestOK, Edits
  <2> QED
    BY <1>6, <2>2 DEF Overlaps, Works, At
<1>7. ApartOK'
  <2>1. ASSUME NEW p \in Request, NEW q \in Request, p # q,
               req'[p].op \in Edits, req'[q].op \in Edits \cup {"complete"}
        PROVE  req'[p].ses # req'[q].ses
    <3>1. CASE p = r
      <4>1. req'[q] = req[q] /\ req[q].op \in Edits \cup {"complete"}
        BY <1>1, <2>1, <3>1 DEF Others
      <4>2. ~Overlaps(s, Edits \cup {"complete"})
        BY <1>1, <2>1, <3>1
      <4>3. req[q].ses # s
        BY <1>6, <2>1, <3>1, <4>1, <4>2
      <4> QED
        BY <1>1, <3>1, <4>1, <4>3
    <3>2. CASE q = r
      <4>1. req'[p] = req[p] /\ req[p].op \in Edits
        BY <1>1, <2>1, <3>2 DEF Others
      <4>2. ~Overlaps(s, Edits) \/ ~Overlaps(s, Edits \cup {"complete"})
        BY <1>1, <2>1, <3>2
      <4>3. req[p].ses # s
        BY <1>6, <2>1, <3>2, <4>1, <4>2
      <4> QED
        BY <1>1, <3>2, <4>1, <4>3
    <3>3. CASE p # r /\ q # r
      BY <1>1, <2>1, <3>3 DEF Others, SessionInv, ApartOK
    <3> QED
      BY <3>1, <3>2, <3>3
  <2> QED
    BY <2>1 DEF ApartOK
<1> QED
  BY <1>3, <1>4, <1>5, <1>7 DEF SessionInv, RowsOK

LEMMA GetSession ==
    ASSUME ShapeInv, SessionInv, NEW r \in Request, GetCheckoutSession(r), RowsStable(r)
    PROVE  SessionInv'
<1> DEFINE s == req[r].ses
           row == sessions[s]
<1>1. /\ Others(r) /\ req[r].pc = "access"
      /\ \/ req'[r] = NoRequest
         \/ /\ req'[r].pc = "open" /\ Same(r) /\ req'[r].copy = req[r].copy
         \/ /\ Expired(row, s)
            /\ req'[r].pc = "save back" /\ Same(r)
            /\ req'[r].copy = EnsureOpen(row, s)
  BY GetShape
<1>2. UNCHANGED <<sessions, claims>>
  BY DEF GetCheckoutSession, tables, history
<1>3. CopyOK(r) /\ RequestOK(req[r]) /\ Types
  BY DEF SessionInv, ShapeInv
<1>4. /\ req[r].op \in Edits \cup {"get", "complete"} /\ s \in Session
      /\ row \in CheckoutSession /\ RowOK(s)
  <2>1. req[r].op \in Edits \cup {"get", "complete"}
    BY <1>1, <1>3 DEF RequestOK, Types, RequestState, Op, SessionPc
  <2> QED
    BY <1>3, <2>1 DEF RequestOK, Types, SessionInv, RowsOK
<1>5. CASE req'[r] = NoRequest
  BY <1>1, <1>2, <1>5, BackStep
<1>6. CASE req'[r].pc = "open" /\ Same(r) /\ req'[r].copy = req[r].copy
  <2>1. SessionOK(req[r].copy)'
    BY <1>3, <1>6 DEF CopyOK, SessionOK
  <2>2. CopyOK(r)'
    BY <1>2, <1>3, <1>6, <2>1 DEF CopyOK, Same
  <2> QED
    BY <1>1, <1>2, <1>6, <2>2, QuietStep
<1>7. CASE /\ Expired(row, s) /\ Same(r)
           /\ req'[r].pc = "save back" /\ req'[r].copy = EnsureOpen(row, s)
  <2>1. /\ req'[r].copy = [row EXCEPT !.status = "expired"]
        /\ row.status \in {"expired", "open"}
    BY <1>7 DEF EnsureOpen, Expired
  <2>2. /\ req'[r].copy.status = "expired" /\ req'[r].copy.order = row.order
        /\ req'[r].copy.discounted = row.discounted /\ req'[r].copy.coupon = row.coupon
    BY <1>4, <2>1 DEF CheckoutSession
  <2>3. SessionOK(req[r].copy)'
    BY <1>4, <2>1, <2>2 DEF RowOK, SessionOK
  <2>4. Matches(req[r].copy)'
    BY <2>2 DEF Matches
  <2>5. sessions'[s].status # "none"
    BY <1>2, <2>1
  <2>6. req'[r].op = req[r].op /\ req'[r].ses = s
    BY <1>7 DEF Same
  <2>7. CopyOK(r)'
    BY <1>7, <2>2, <2>3, <2>4, <2>5, <2>6 DEF CopyOK
  <2> QED
    BY <1>1, <1>2, <1>7, <2>7, QuietStep
<1> QED
  BY <1>1, <1>5, <1>6, <1>7

LEMMA OpenSession ==
    ASSUME ShapeInv, SessionInv, NEW r \in Request, getOpenCheckoutSession(r), RowsStable(r)
    PROVE  SessionInv'
<1> DEFINE s == req[r].ses
           row == EnsureOpen(sessions[s], s)
<1>1. /\ Others(r) /\ req[r].pc = "open" /\ RequestsOK'
      /\ \/ req'[r] = NoRequest
         \/ /\ row.status # "open"
            /\ req'[r].pc = "save back" /\ Same(r) /\ req'[r].copy = row
         \/ /\ row.status = "open" /\ Same(r)
            /\ req'[r].pc \in {"price", "redeem", "save"}
            /\ IF req[r].op \in {"remove", "remove by id"}
                 THEN req'[r].copy \in {RemoveItem(row, req[r].arg),
                                        RemoveItemBySkuID(row, req[r].arg)}
               ELSE req'[r].copy = row
  BY OpenShape
<1>2. UNCHANGED <<sessions, claims>>
  BY DEF getOpenCheckoutSession, tables, history
<1>3. CopyOK(r) /\ RequestOK(req[r]) /\ Types
  BY DEF SessionInv, ShapeInv
<1>4. /\ req[r].op \in Edits \cup {"complete"} /\ s \in Session
      /\ sessions[s] \in CheckoutSession /\ RowOK(s) /\ row \in CheckoutSession
      /\ sessions[s].status # "none" /\ req[r].arg \in SUBSET Variant
  <2>1. req[r].op \in Edits \cup {"complete"}
    BY <1>1, <1>3 DEF RequestOK, Types, RequestState, Op, SessionPc
  <2>2. s \in Session /\ sessions[s].status # "none"
    BY <1>3, <2>1 DEF RequestOK, CopyOK
  <2> QED
    BY <1>3, <2>1, <2>2, SessionTypes DEF Types, SessionInv, RowsOK, RequestState
<1>5. CASE req'[r] = NoRequest
  BY <1>1, <1>2, <1>5, BackStep
<1>6. CASE row.status # "open" /\ req'[r].pc = "save back" /\ Same(r) /\ req'[r].copy = row
  <2>1. /\ row.status \in {"completed", "expired"}
        /\ row.status = "completed" => row = sessions[s]
        /\ SessionOK(row)
    BY <1>4, <1>6 DEF EnsureOpen, Expired, CheckoutSession, RowOK, SessionOK
  <2>2. row.status = "completed" => row.order \in claims[s]
    BY <1>4, <2>1 DEF RowOK
  <2> HIDE DEF row
  <2>3. SessionOK(req[r].copy)'
    BY <1>6, <2>1 DEF SessionOK
  <2>4. Matches(req[r].copy)'
    <3>1. CASE row.status = "completed"
      <4>0. PICK t \in Session : t = s
        BY <1>4
      <4>1. RowOK(t)'
        BY <1>2, <1>4, <4>0, RowKept
      <4>2. Matches(sessions[t])'
        BY <4>1 DEF RowOK
      <4>3. req'[r].copy = sessions'[t]
        BY <1>2, <1>6, <2>1, <3>1, <4>0
      <4> QED
        BY <4>2, <4>3 DEF Matches
    <3>2. CASE row.status # "completed"
      BY <1>6, <3>2 DEF Matches
    <3> QED
      BY <3>1, <3>2
  <2>5. req'[r].op = req[r].op /\ req'[r].ses = s
    BY <1>6 DEF Same
  <2>6. CopyOK(r)'
    BY <1>2, <1>4, <1>6, <2>1, <2>2, <2>3, <2>4, <2>5 DEF CopyOK
  <2> QED
    BY <1>1, <1>2, <1>6, <2>6, QuietStep
<1>7. CASE /\ row.status = "open" /\ Same(r)
           /\ req'[r].pc \in {"price", "redeem", "save"}
           /\ IF req[r].op \in {"remove", "remove by id"}
                THEN req'[r].copy \in {RemoveItem(row, req[r].arg),
                                       RemoveItemBySkuID(row, req[r].arg)}
              ELSE req'[r].copy = row
  <2>1. row = sessions[s] /\ SessionOK(row)
    BY <1>4, <1>7 DEF EnsureOpen, CheckoutSession, RowOK
  <2>2. claims'[s] = {}
    BY <1>2, <1>4, <1>7, <2>1 DEF RowOK
  <2> HIDE DEF row
  <2>3. SessionOK(req'[r].copy) /\ req'[r].copy.status = "open"
    BY <1>4, <1>7, <2>1, SessionOps
  <2>4. SessionOK(req[r].copy)'
    BY <2>3 DEF SessionOK
  <2>5. req'[r].op = req[r].op /\ req'[r].ses = s
    BY <1>7 DEF Same
  <2>6. req[r].op = "complete" => req'[r].copy = sessions'[s]
    BY <1>2, <1>7, <2>1
  <2>7. CopyOK(r)'
    BY <1>2, <1>4, <1>7, <2>2, <2>3, <2>4, <2>5, <2>6 DEF CopyOK
  <2> QED
    BY <1>1, <1>2, <1>7, <2>7, QuietStep
<1> QED
  BY <1>1, <1>5, <1>6, <1>7

LEMMA PriceSession ==
    ASSUME ShapeInv, SessionInv, NEW r \in Request, priceItems(r), RowsStable(r)
    PROVE  SessionInv'
<1> DEFINE job == req[r]
           s == job.ses
<1>1. /\ Others(r) /\ job.pc = "price"
      /\ \/ req'[r] = NoRequest
         \/ /\ job.op = "complete" /\ Same(r)
            /\ req'[r].pc = (IF job.copy.coupon THEN "redeem" ELSE "reserve")
            /\ req'[r].copy = job.copy
         \/ /\ job.op \in Edits /\ Same(r)
            /\ req'[r].pc = "save"
            /\ req'[r].copy \in {SetItems(job.copy, job.arg), UpsertItem(job.copy, job.arg)}
  BY PriceShape
<1>2. UNCHANGED <<sessions, claims>>
  BY DEF priceItems, tables, history
<1>3. /\ CopyOK(r) /\ RequestOK(req[r]) /\ SessionOK(job.copy)
      /\ job.copy \in CheckoutSession /\ job.arg \in SUBSET Variant
  BY DEF SessionInv, ShapeInv, Types, RequestState, CopyOK
<1>4. CASE req'[r] = NoRequest
  BY <1>1, <1>2, <1>4, BackStep
<1>5. CASE /\ job.op = "complete" /\ Same(r)
           /\ req'[r].pc = (IF job.copy.coupon THEN "redeem" ELSE "reserve")
           /\ req'[r].copy = job.copy
  <2>1. req'[r].pc = "redeem" \/ (req'[r].pc = "reserve" /\ ~job.copy.discounted)
    BY <1>3, <1>5 DEF SessionOK
  <2>2. SessionOK(req[r].copy)'
    BY <1>3, <1>5 DEF SessionOK
  <2>3. "complete" \notin Edits
    BY DEF Edits
  <2>4. req'[r].op = "complete" /\ req'[r].ses = s
    BY <1>5 DEF Same
  <2>5. CopyOK(r)'
    BY <1>1, <1>2, <1>3, <1>5, <2>1, <2>2, <2>3, <2>4 DEF CopyOK
  <2> QED
    BY <1>1, <1>2, <1>5, <2>5, QuietStep
<1>6. CASE /\ job.op \in Edits /\ Same(r)
           /\ req'[r].pc = "save"
           /\ req'[r].copy \in {SetItems(job.copy, job.arg), UpsertItem(job.copy, job.arg)}
  <2>1. job.copy.status = "open" /\ claims[s] = {}
    BY <1>1, <1>3, <1>6 DEF CopyOK
  <2>2. SessionOK(req'[r].copy) /\ req'[r].copy.status = "open"
    BY <1>3, <1>6, <2>1, SessionOps
  <2>3. SessionOK(req[r].copy)'
    BY <2>2 DEF SessionOK
  <2>4. "complete" \notin Edits
    BY DEF Edits
  <2>5. req'[r].op = job.op /\ req'[r].ses = s
    BY <1>6 DEF Same
  <2>6. CopyOK(r)'
    BY <1>2, <1>3, <1>6, <2>1, <2>2, <2>3, <2>4, <2>5 DEF CopyOK
  <2> QED
    BY <1>1, <1>2, <1>6, <2>6, QuietStep
<1> QED
  BY <1>1, <1>4, <1>5, <1>6

LEMMA RedeemSession ==
    ASSUME ShapeInv, SessionInv, NEW r \in Request, Redeem(r), RowsStable(r)
    PROVE  SessionInv'
<1> DEFINE job == req[r]
           s == job.ses
<1>1. /\ Others(r) /\ job.pc = "redeem"
      /\ \/ req'[r] = NoRequest
         \/ /\ job.op = "complete" /\ Same(r)
            /\ req'[r].pc = "reserve" /\ req'[r].discount = TRUE
            /\ req'[r].copy = job.copy
         \/ /\ job.op \in Edits /\ Same(r)
            /\ req'[r].pc = "save" /\ req'[r].copy = ApplyCoupon(job.copy)
  BY RedeemShape
<1>2. UNCHANGED <<sessions, claims>>
  BY DEF Redeem, tables, history
<1>3. /\ CopyOK(r) /\ RequestOK(req[r]) /\ SessionOK(job.copy)
      /\ job.copy \in CheckoutSession
  BY DEF SessionInv, ShapeInv, Types, RequestState, CopyOK
<1>4. CASE req'[r] = NoRequest
  BY <1>1, <1>2, <1>4, BackStep
<1>5. CASE /\ job.op = "complete" /\ Same(r)
           /\ req'[r].pc = "reserve" /\ req'[r].discount = TRUE
           /\ req'[r].copy = job.copy
  <2>1. SessionOK(req[r].copy)'
    BY <1>3, <1>5 DEF SessionOK
  <2>2. "complete" \notin Edits
    BY DEF Edits
  <2>3. req'[r].op = "complete" /\ req'[r].ses = s
    BY <1>5 DEF Same
  <2>4. CopyOK(r)'
    BY <1>1, <1>2, <1>3, <1>5, <2>1, <2>2, <2>3 DEF CopyOK
  <2> QED
    BY <1>1, <1>2, <1>5, <2>4, QuietStep
<1>6. CASE /\ job.op \in Edits /\ Same(r)
           /\ req'[r].pc = "save" /\ req'[r].copy = ApplyCoupon(job.copy)
  <2>1. job.copy.status = "open" /\ claims[s] = {}
    BY <1>1, <1>3, <1>6 DEF CopyOK
  <2>2. SessionOK(req'[r].copy) /\ req'[r].copy.status = "open"
    BY <1>3, <1>6, <2>1, SessionOps
  <2>3. SessionOK(req[r].copy)'
    BY <2>2 DEF SessionOK
  <2>4. "complete" \notin Edits
    BY DEF Edits
  <2>5. req'[r].op = job.op /\ req'[r].ses = s
    BY <1>6 DEF Same
  <2>6. CopyOK(r)'
    BY <1>2, <1>3, <1>6, <2>1, <2>2, <2>3, <2>4, <2>5 DEF CopyOK
  <2> QED
    BY <1>1, <1>2, <1>6, <2>6, QuietStep
<1> QED
  BY <1>1, <1>4, <1>5, <1>6

LEMMA ReserveSession ==
    ASSUME ShapeInv, SessionInv, NEW r \in Request, Reserve(r), RowsStable(r)
    PROVE  SessionInv'
<1>1. /\ Others(r) /\ req[r].pc = "reserve"
      /\ \/ req'[r] = NoRequest
         \/ /\ req'[r].pc = "save order" /\ Same(r)
            /\ req'[r].copy = req[r].copy /\ req'[r].discount = req[r].discount
  BY ReserveShape
<1>2. UNCHANGED <<sessions, claims>>
  BY DEF Reserve
<1>3. CopyOK(r) /\ SessionOK(req[r].copy) /\ RequestOK(req[r])
  BY DEF SessionInv, CopyOK, ShapeInv
<1>4. CASE req'[r] = NoRequest
  BY <1>1, <1>2, <1>4, BackStep
<1>5. CASE /\ req'[r].pc = "save order" /\ Same(r)
           /\ req'[r].copy = req[r].copy /\ req'[r].discount = req[r].discount
  <2>1. SessionOK(req[r].copy)'
    BY <1>3, <1>5 DEF SessionOK
  <2>2. req'[r].op = req[r].op /\ req'[r].ses = req[r].ses
    BY <1>5 DEF Same
  <2>3. CopyOK(r)'
    BY <1>1, <1>2, <1>3, <1>5, <2>1, <2>2 DEF CopyOK
  <2> QED
    BY <1>1, <1>2, <1>5, <2>3, QuietStep
<1> QED
  BY <1>1, <1>4, <1>5

LEMMA SaveOrderSession ==
    ASSUME ShapeInv, SessionInv, NEW r \in Request, SaveOrder(r), RowsStable(r)
    PROVE  SessionInv'
<1>1. /\ Types /\ req[r] \in RequestState /\ RequestOK(req[r]) /\ orders \in [OrderId -> OrderRow]
      /\ req[r].pc = "save order" /\ req[r].pc \in OrderPc
  BY DEF ShapeInv, Types, SaveOrder, At, OrderPc
<1>2. PICK x \in OrderId : x = req[r].order
  BY <1>1, HasOrder
<1>3. UNCHANGED <<sessions, claims>>
  BY DEF SaveOrder
<1>4. CopyOK(r) /\ SessionOK(req[r].copy)
  BY DEF SessionInv, CopyOK
<1>5. CASE Done(r)
  BY <1>3, <1>5, EndShape, BackStep
<1>6. CASE Goto(r, "unwind")
  <2>1. Others(r) /\ Same(r) /\ req'[r].pc = "unwind" /\ req'[r].copy = req[r].copy
    BY <1>1, <1>6, OrderGoto DEF OrderPc
  <2> QED
    BY <1>3, <2>1, BackStep
<1>7. CASE Inserted(r) /\ req[r].op = "complete" /\ Goto(r, "claim")
  <2>1. /\ Others(r) /\ Same(r) /\ req'[r].pc = "claim" /\ req'[r].order = x
        /\ req'[r].copy = req[r].copy /\ req'[r].discount = req[r].discount
    BY <1>1, <1>2, <1>7, OrderGoto DEF OrderPc
  <2>2. orders'[x] = NewRow(r)
    BY <1>1, <1>2, <1>7 DEF Inserted
  <2>3. orders'[x].items = req[r].copy.items /\ orders'[x].discounted = req[r].discount
    BY <1>7, <2>2 DEF NewRow, ItemsOf
  <2>4. SessionOK(req[r].copy)'
    BY <1>4, <2>1 DEF SessionOK
  <2>5. req'[r].op = "complete" /\ req'[r].ses = req[r].ses /\ "complete" \notin Edits
    BY <1>7, <2>1 DEF Same, Edits
  <2>6. CopyOK(r)'
    BY <1>1, <1>3, <1>4, <1>7, <2>1, <2>3, <2>4, <2>5 DEF CopyOK
  <2> QED
    BY <1>3, <2>1, <2>6, QuietStep
<1>8. \/ Done(r) \/ Goto(r, "unwind")
      \/ Inserted(r) /\ req[r].op = "complete" /\ Goto(r, "claim")
  <2>1. CASE req[r].op = "complete"
    BY <2>1 DEF SaveOrder
  <2>2. CASE req[r].op # "complete"
    BY <2>2 DEF SaveOrder
  <2> QED
    BY <2>1, <2>2
<1> QED
  BY <1>5, <1>6, <1>7, <1>8

\* A session is written, by a save, a claim or its creation.
LEMMA SessionWritten ==
    ASSUME ShapeInv, SessionInv, NEW r \in Request, RowsStable(r), Others(r), CopyOK(r)',
           req'[r] = NoRequest \/ Same(r), NEW s \in Session,
           \A t \in Session \ {s} : sessions'[t] = sessions[t] /\ claims'[t] = claims[t],
           RowOK(s)', claims[s] \subseteq claims'[s], sessions'[s].status # "none",
           \A q \in Request \ {r} :
              req[q].ses = s =>
                 /\ req[q].op \in Edits => claims'[s] = claims[s]
                 /\ req[q].op = "complete" => sessions'[s].status # "open"
    PROVE  SessionInv'
<1>1. \A t \in Session : RowOK(t)'
  <2>1. ASSUME NEW t \in Session \ {s}
        PROVE  RowOK(t)'
    BY <2>1, RowKept DEF SessionInv, RowsOK
  <2> QED
    BY <2>1
<1>2. ASSUME NEW q \in Request \ {r}
      PROVE  CopyOK(q)'
  <2>1. req'[q] = req[q] /\ CopyOK(q)
    BY DEF Others, SessionInv
  <2>2. req[q].op \in Edits \cup {"get", "complete"} => req[q].ses \in Session
    BY DEF ShapeInv, RequestOK
  <2>3. CASE req[q].ses = s
    BY <2>1, <2>3, CopyKept
  <2>4. CASE req[q].ses # s
    BY <2>1, <2>2, <2>4, CopyKept
  <2> QED
    BY <2>3, <2>4
<1>3. ApartOK'
  BY ApartKept DEF SessionInv
<1> QED
  BY <1>1, <1>2, <1>3 DEF SessionInv, RowsOK

LEMMA SavesSession ==
    ASSUME ShapeInv, SessionInv, NEW r \in Request, Saves(r), RowsStable(r)
    PROVE  SessionInv'
<1>1. /\ req[r].pc \in {"save back", "save"} /\ UNCHANGED <<orders, claims>>
      /\ Others(r) /\ req'[r] = NoRequest
  BY EndShape DEF Saves
<1>2. /\ Types /\ RequestOK(req[r]) /\ CopyOK(r) /\ SessionOK(req[r].copy)
      /\ req[r] \in RequestState
  BY DEF ShapeInv, SessionInv, CopyOK, Types
<1>3. req[r].op \in Edits \cup {"get", "complete"}
  BY <1>1, <1>2 DEF RequestOK, RequestState, Op, SessionPc
<1>4. PICK s \in Session : s = req[r].ses
  BY <1>2, <1>3 DEF RequestOK
<1>5. PICK copy \in CheckoutSession : copy = req[r].copy
  BY <1>2 DEF RequestState
<1>6. CASE UNCHANGED sessions
  BY <1>1, <1>6, BackStep
<1>7. CASE sessions' = [sessions EXCEPT ![s] = copy]
  <2>1. /\ sessions'[s] = copy
        /\ \A t \in Session \ {s} : sessions'[t] = sessions[t] /\ claims'[t] = claims[t]
        /\ claims'[s] = claims[s]
    BY <1>1, <1>2, <1>7 DEF Types
  <2>2. \A o, p \in claims[s] : o = p
    BY DEF SessionInv, RowsOK, RowOK
  <2>3. CopyOK(r)'
    BY <1>1, EndCopy
  <2>4. CASE req[r].pc = "save"
    <3>1. req[r].op \in Edits
      BY <1>2, <2>4 DEF RequestOK
    <3>2. copy.status = "open" /\ claims[s] = {}
      BY <1>2, <1>4, <1>5, <2>4, <3>1 DEF CopyOK
    <3>3. RowOK(s)'
      BY <1>2, <1>5, <2>1, <2>2, <3>2 DEF RowOK, SessionOK, Matches
    <3>4. \A q \in Request \ {r} : req[q].ses = s => req[q].op # "complete"
      BY <1>4, <3>1 DEF SessionInv, ApartOK
    <3> QED
      BY <1>1, <2>1, <2>3, <3>2, <3>3, <3>4, SessionWritten
  <2>5. CASE req[r].pc = "save back"
    <3>1. /\ copy.status \in {"completed", "expired"} /\ Matches(copy)
          /\ copy.status = "completed" => copy.order \in claims[s]
      BY <1>2, <1>4, <1>5, <2>5 DEF CopyOK
    <3>2. RowOK(s)'
      BY <1>1, <1>2, <1>5, <2>1, <2>2, <3>1 DEF RowOK, SessionOK, Matches
    <3> QED
      BY <1>1, <2>1, <2>3, <3>1, <3>2, SessionWritten
  <2> QED
    BY <1>1, <2>4, <2>5
<1> QED
  BY <1>4, <1>5, <1>6, <1>7 DEF Saves

LEMMA ClaimSession ==
    ASSUME ShapeInv, SessionInv, NEW r \in Request, CompleteCheckoutSessionIfOpen(r), RowsStable(r)
    PROVE  SessionInv'
<1>1. /\ Types /\ RequestOK(req[r]) /\ CopyOK(r)
      /\ req[r].pc = "claim" /\ req[r].pc \in OrderPc /\ req[r].op = "complete"
      /\ sessions \in [Session -> CheckoutSession] /\ claims \in [Session -> SUBSET OrderId]
      /\ UNCHANGED orders
  BY DEF ShapeInv, SessionInv, Types, CompleteCheckoutSessionIfOpen, At, OrderPc, RequestOK
<1>2. PICK x \in OrderId : x = req[r].order
  BY <1>1, HasOrder
<1>3. x # NoOrder
  BY <1>1, <1>2, HasOrder
<1>4. PICK s \in Session : s = req[r].ses
  BY <1>1, HasOrder
<1>5. /\ Others(r)
      /\ \/ req'[r] = NoRequest
         \/ Same(r) /\ req'[r].copy = req[r].copy /\ req'[r].pc = "cancel"
  <2>1. CASE Done(r)
    BY <2>1, EndShape
  <2>2. CASE Goto(r, "cancel")
    BY <1>1, <2>2, OrderGoto DEF OrderPc
  <2> QED
    BY <2>1, <2>2 DEF CompleteCheckoutSessionIfOpen
<1>6. CASE UNCHANGED <<sessions, claims>>
  BY <1>5, <1>6, BackStep
<1>7. CASE Claimable(s) /\ Claimed(r)
  <2>1. sessions[s].status = "open"
    BY <1>7 DEF Claimable
  <2>2. /\ sessions' = [sessions EXCEPT ![s].status = "completed", ![s].order = x]
        /\ claims' = [claims EXCEPT ![s] = @ \cup {x}]
    BY <1>2, <1>4, <1>7 DEF Claimed
  <2>3. /\ sessions'[s].status = "completed" /\ sessions'[s].order = x
        /\ sessions'[s].items = sessions[s].items /\ sessions'[s].coupon = sessions[s].coupon
        /\ sessions'[s].discounted = sessions[s].discounted
    BY <1>1, <2>2 DEF CheckoutSession
  <2>4. \A t \in Session \ {s} : sessions'[t] = sessions[t] /\ claims'[t] = claims[t]
    BY <1>1, <2>2
  <2>5. SessionOK(sessions[s]) /\ claims[s] = {}
    BY <2>1 DEF SessionInv, RowsOK, RowOK
  <2>6. claims'[s] = {x}
    BY <1>1, <2>2, <2>5
  <2>7. /\ sessions[s].items = req[r].copy.items
        /\ sessions[s].discounted => req[r].copy.discounted
        /\ req[r].copy.discounted => req[r].discount
        /\ orders[x].items = req[r].copy.items
        /\ orders[x].discounted = req[r].discount
    BY <1>1, <1>2, <1>4, <2>1 DEF CopyOK
  <2>8. SessionOK(sessions[s])'
    BY <1>3, <2>3, <2>5 DEF SessionOK
  <2>9. Matches(sessions[s])'
    BY <1>1, <2>3, <2>7 DEF Matches
  <2>10. RowOK(s)'
    BY <2>3, <2>6, <2>8, <2>9 DEF RowOK
  <2>11. \A q \in Request \ {r} : req[q].ses = s => req[q].op \notin Edits
    BY <1>1, <1>4 DEF SessionInv, ApartOK
  <2>12. CopyOK(r)'
    <3>1. CASE req'[r] = NoRequest
      BY <3>1, EndCopy
    <3>2. CASE Same(r) /\ req'[r].copy = req[r].copy /\ req'[r].pc = "cancel"
      <4>1. SessionOK(req[r].copy)'
        BY <1>1, <3>2 DEF CopyOK, SessionOK
      <4>2. req'[r].op = "complete" /\ req'[r].ses = s /\ "complete" \notin Edits
        BY <1>1, <1>4, <3>2 DEF Same, Edits
      <4> QED
        BY <2>3, <3>2, <4>1, <4>2 DEF CopyOK
    <3> QED
      BY <1>5, <3>1, <3>2
  <2> QED
    BY <1>5, <2>3, <2>4, <2>5, <2>10, <2>11, <2>12, SessionWritten
<1> QED
  BY <1>4, <1>6, <1>7 DEF CompleteCheckoutSessionIfOpen

LEMMA OutsideSession ==
    ASSUME ShapeInv, SessionInv, Outside
    PROVE  SessionInv'
<1>1. UNCHANGED <<orders, req, claims>>
  BY OutsideKeeps
<1>2. CASE sessions' = sessions
  <2>1. \A s \in Session : RowOK(s)'
    BY <1>1, <1>2 DEF SessionInv, RowsOK, RowOK, SessionOK, Matches
  <2>2. \A q \in Request : CopyOK(q)'
    BY <1>1, <1>2 DEF SessionInv, CopyOK, SessionOK, Matches
  <2>3. ApartOK'
    BY <1>1 DEF SessionInv, ApartOK
  <2> QED
    BY <2>1, <2>2, <2>3 DEF SessionInv, RowsOK
<1>3. ASSUME NEW s \in Session, CreateCheckoutSession(s)
      PROVE  SessionInv'
  <2>1. /\ sessions[s] = NoSession /\ claims[s] = {}
        /\ sessions' = [sessions EXCEPT ![s].status = "open"]
        /\ sessions \in [Session -> CheckoutSession]
    BY <1>3 DEF CreateCheckoutSession, SessionInv, RowsOK, RowOK, NoSession, ShapeInv, Types
  <2>2. /\ sessions'[s].status = "open" /\ sessions'[s].order = NoOrder
        /\ sessions'[s].discounted = FALSE
        /\ \A t \in Session \ {s} : sessions'[t] = sessions[t]
    BY <2>1 DEF NoSession, CheckoutSession
  <2>3. RowOK(s)'
    BY <1>1, <2>1, <2>2 DEF RowOK, SessionOK, Matches
  <2>4. ASSUME NEW t \in Session \ {s}
        PROVE  RowOK(t)'
    BY <1>1, <2>2 DEF SessionInv, RowsOK, RowOK, SessionOK, Matches
  <2>5. ASSUME NEW q \in Request
        PROVE  CopyOK(q)'
    <3>1. CopyOK(q) /\ req'[q] = req[q] /\ RequestOK(req[q]) /\ req[q] \in RequestState
      BY <1>1 DEF SessionInv, ShapeInv, Types
    <3>2. CASE req[q].op \in Edits \cup {"get", "complete"}
      <4>1. req[q].ses \in Session /\ sessions[req[q].ses].status # "none"
        BY <3>1, <3>2 DEF CopyOK, RequestOK
      <4>2. req[q].ses # s
        BY <2>1, <4>1 DEF NoSession
      <4>3. sessions'[req[q].ses] = sessions[req[q].ses]
        BY <2>2, <4>1, <4>2
      <4> QED
        BY <1>1, <3>1, <4>3 DEF CopyOK, SessionOK, Matches
    <3>3. CASE req[q].op \notin Edits \cup {"get", "complete"}
      <4>1. req[q].pc \notin {"save back", "claim"}
        BY <3>1, <3>3 DEF RequestOK, RequestState, Op, SessionPc
      <4>2. SessionOK(req[q].copy)'
        BY <3>1 DEF CopyOK, SessionOK
      <4> QED
        BY <3>1, <3>3, <4>1, <4>2 DEF CopyOK
    <3> QED
      BY <3>2, <3>3
  <2>6. ApartOK'
    BY <1>1 DEF SessionInv, ApartOK
  <2> QED
    BY <2>3, <2>4, <2>5, <2>6 DEF SessionInv, RowsOK
<1> QED
  BY <1>2, <1>3 DEF Outside, Expire, tables, vars

LEMMA SessionInductive ==
    ASSUME ShapeInv, SessionInv, ~EditsOverlap, [Next]_vars
    PROVE  SessionInv'
<1>1. ASSUME NEW r \in Request, Step(r)
      PROVE  SessionInv'
  <2>1. RowsStable(r)
    BY <1>1, StepRowsStable
  <2>2. CASE Reads(r)
    <3>1. ASSUME NEW k \in Key, NEW b \in Body, createOrder(r, k, b)
          PROVE  SessionInv'
      <4>1. Others(r) /\ req'[r].op = "create" /\ req'[r].copy = NoSession /\ req'[r].pc = "find"
        BY <3>1, CreateShape
      <4>2. UNCHANGED <<sessions, claims>>
        BY <3>1 DEF createOrder, tables, history
      <4>3. SessionOK(req[r].copy)'
        BY <4>1 DEF SessionOK, NoSession
      <4>4. CopyOK(r)'
        BY <4>1, <4>3 DEF CopyOK, Edits
      <4>5. \A s \in Session : RowOK(s)'
        BY <2>1, <4>2, RowKept DEF SessionInv, RowsOK
      <4>6. \A q \in Request \ {r} : CopyOK(q)'
        BY <2>1, <4>1, <4>2, CopyKept DEF SessionInv, Others
      <4>7. ApartOK'
        BY <4>1 DEF SessionInv, ApartOK, Others, Edits
      <4> QED
        BY <4>4, <4>5, <4>6, <4>7 DEF SessionInv, RowsOK
    <3> QED
      BY <2>1, <2>2, <3>1, AccessSession, GetSession, OpenSession, PriceSession, RedeemSession
         DEF Reads
  <2>3. CASE loadIdempotentOrder(r)
    <3>1. /\ Others(r) /\ req[r].op = "create"
          /\ \/ req'[r] = NoRequest
             \/ req'[r].pc = "reserve" /\ Same(r) /\ req'[r].copy = req[r].copy
      BY <2>3, LoadShape
    <3>2. UNCHANGED <<sessions, claims>>
      BY <2>3 DEF loadIdempotentOrder, tables
    <3>3. CopyOK(r)'
      <4>1. CASE req'[r] = NoRequest
        BY <4>1, EndCopy
      <4>2. CASE req'[r].pc = "reserve" /\ Same(r) /\ req'[r].copy = req[r].copy
        <5>1. SessionOK(req[r].copy)'
          BY <4>2 DEF SessionInv, CopyOK, SessionOK
        <5>2. req'[r].op = "create"
          BY <3>1, <4>2 DEF Same
        <5> QED
          BY <4>2, <5>1, <5>2 DEF CopyOK, Edits
      <4> QED
        BY <3>1, <4>1, <4>2
    <3> QED
      BY <2>1, <3>1, <3>2, <3>3, QuietStep
  <2>4. CASE Unwind(r)
    <3>1. UNCHANGED <<sessions, claims>> /\ req[r].pc = "unwind" /\ req[r].pc \in OrderPc
      BY <2>4 DEF Unwind, At, OrderPc
    <3>2. CASE Done(r)
      BY <2>1, <3>1, <3>2, EndShape, BackStep
    <3>3. CASE req[r].key # NoKey /\ Goto(r, "find again")
      <4>1. req[r].op = "create"
        BY <3>1, <3>3, HasOrder
      <4>2. Others(r) /\ Same(r) /\ req'[r].pc = "find again" /\ req'[r].copy = req[r].copy
        BY <3>1, <3>3, <4>1, OrderGoto DEF OrderPc
      <4> QED
        BY <2>1, <3>1, <4>2, BackStep
    <3> QED
      BY <2>4, <3>2, <3>3 DEF Unwind
  <2>5. CASE CancelOrder(r)
    <3>1. /\ UNCHANGED <<sessions, claims>> /\ req[r].pc = "cancel" /\ req[r].pc \in OrderPc
          /\ req[r].op = "complete"
      BY <2>5 DEF CancelOrder, At, OrderPc, ShapeInv, RequestOK
    <3>2. CASE Done(r)
      BY <2>1, <3>1, <3>2, EndShape, BackStep
    <3>3. CASE Goto(r, "release")
      <4>1. Others(r) /\ Same(r) /\ req'[r].pc = "release" /\ req'[r].copy = req[r].copy
        BY <3>1, <3>3, OrderGoto DEF OrderPc
      <4> QED
        BY <2>1, <3>1, <4>1, BackStep
    <3> QED
      BY <2>5, <3>2, <3>3 DEF CancelOrder
  <2>6. CASE ReleaseReservation(r) \/ Crash(r)
    <3>1. UNCHANGED <<sessions, claims>> /\ Done(r)
      BY <2>6 DEF ReleaseReservation, Crash, tables
    <3> QED
      BY <2>1, <3>1, EndShape, BackStep
  <2> QED
    BY <1>1, <2>1, <2>2, <2>3, <2>4, <2>5, <2>6, SavesSession, ReserveSession,
       SaveOrderSession, ClaimSession DEF Step
<1> QED
  BY <1>1, OutsideSession, NextIs

LEMMA SessionInit == Init => SessionInv
<1> SUFFICES ASSUME Init
             PROVE  SessionInv
  OBVIOUS
<1>1. SessionOK(NoSession) /\ Matches(NoSession)
  BY DEF SessionOK, Matches, NoSession
<1>2. \A s \in Session : RowOK(s)
  BY <1>1 DEF Init, RowOK, NoSession
<1>3. \A r \in Request : CopyOK(r)
  BY <1>1, NoRequestOK DEF Init, CopyOK, Edits
<1>4. ApartOK
  BY NoRequestOK DEF Init, ApartOK, Edits
<1> QED
  BY <1>2, <1>3, <1>4 DEF SessionInv, RowsOK

LEMMA ClaimsGrow ==
    ASSUME ShapeInv, [Next]_vars, NEW s \in Session
    PROVE  claims[s] \subseteq claims'[s]
<1>1. claims \in [Session -> SUBSET OrderId]
  BY DEF ShapeInv, Types
<1>2. ASSUME NEW r \in Request, Step(r)
      PROVE  claims' = claims \/ claims' = [claims EXCEPT ![req[r].ses] = @ \cup {req[r].order}]
  BY <1>2 DEF Step, Reads, GetCheckoutSession, getOpenCheckoutSession, priceItems, Redeem,
     checkoutSession, createOrder, Saves, Reserve, Unwind, loadIdempotentOrder, SaveOrder,
     CompleteCheckoutSessionIfOpen, Claimed, CancelOrder, ReleaseReservation, Crash,
     tables, history
<1>3. Outside => claims' = claims
  BY OutsideKeeps
<1> QED
  BY <1>1, <1>2, <1>3, NextIs

\* A session ends with one order, and stays ended, whatever is retried, lost or
\* interleaved: of the completions that race for it the conditional UPDATE lets one
\* through, no copy that is saved back reopens it, and the lines and the discount the
\* completed session shows are those of its order.  Assumed is what the code needs:
\* a client does not edit a session while it completes it.
THEOREM SessionKeepsItsOrderHolds ==
    ASSUME ~EditsOverlap
    PROVE  Spec => SessionKeepsItsOrder
<1>1. Init => ShapeInv /\ SessionInv
  BY ShapeInit, SessionInit
<1>2. ShapeInv /\ SessionInv /\ [Next]_vars => (ShapeInv /\ SessionInv)'
  BY ShapeInductive, SessionInductive
<1>3. ShapeInv /\ SessionInv => TypeOK /\ OneOrderPerSession /\ SessionMatchesOrder
  <2> SUFFICES ASSUME ShapeInv, SessionInv
               PROVE  TypeOK /\ OneOrderPerSession /\ SessionMatchesOrder
    OBVIOUS
  <2>1. Types /\ \A s \in Session : RowOK(s)
    BY DEF ShapeInv, SessionInv, RowsOK
  <2>2. TypeOK
    BY <2>1 DEF Types, TypeOK, RowOK, SessionOK, CheckoutSession, OrderRow
  <2>3. ASSUME NEW s \in Session
        PROVE  Cardinality(claims[s]) <= 1
    <3>1. CASE claims[s] = {}
      BY <3>1, FS_EmptySet
    <3>2. CASE claims[s] # {}
      <4>1. PICK o : o \in claims[s]
        BY <3>2
      <4>2. claims[s] = {o}
        BY <2>1, <4>1 DEF RowOK
      <4>3. Cardinality({o}) = 1
        BY FS_Singleton
      <4>4. Cardinality(claims[s]) = 1
        BY <4>2, <4>3
      <4> QED
        BY <4>4
    <3> QED
      BY <3>1, <3>2
  <2>4. OneOrderPerSession
    BY <2>3 DEF OneOrderPerSession
  <2>5. SessionMatchesOrder
    BY <2>1 DEF SessionMatchesOrder, RowOK, Matches
  <2> QED
    BY <2>2, <2>4, <2>5
<1>4. ShapeInv /\ SessionInv /\ SessionInv' /\ [Next]_vars => CompletedIsNotReopenedStep
  <2> SUFFICES ASSUME ShapeInv, SessionInv, SessionInv', [Next]_vars, NEW s \in Session,
                      sessions[s].status = "completed"
               PROVE  sessions'[s].status # "open"
    BY DEF CompletedIsNotReopenedStep
  <2>1. sessions[s].order \in claims[s]
    BY DEF SessionInv, RowsOK, RowOK
  <2>2. sessions[s].order \in claims'[s]
    BY <2>1, ClaimsGrow
  <2>3. sessions'[s].status = "open" => claims'[s] = {}
    BY DEF SessionInv, RowsOK, RowOK
  <2> QED
    BY <2>2, <2>3
<1> QED
  BY <1>1, <1>2, <1>3, <1>4, PTL DEF Spec, SessionKeepsItsOrder
=============================================================================
