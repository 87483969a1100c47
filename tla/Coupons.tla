------------------------------- MODULE Coupons -------------------------------
(***************************************************************************)
(* The coupon table: staff create, edit and delete a coupon, customers     *)
(* redeem it.  An edit reads the row and saves the whole of it back; it    *)
(* does not ask whether there was still a row to save.                     *)
(***************************************************************************)
EXTENDS Integers, FiniteSets

CONSTANTS
    Request,        \* staff requests in progress
    Code,           \* codes, as Create and GetActive write them: upper case, no spaces
    Discount        \* what a coupon may take off

CouponsAssumption == IsFiniteSet(Request) /\ IsFiniteSet(Code)

VARIABLES
    coupons,    \* the row of each code, or None
    req,        \* what each edit has read
    offered,    \* history: what staff last made each coupon say
    stale       \* history: codes saved by an edit that another change had overtaken

vars == <<coupons, req, offered, stale>>

Row == [discount : Discount, active : BOOLEAN]
None == [active |-> FALSE]
Idle == [code |-> "none", patch |-> None, read |-> None]

Init ==
    /\ coupons \in [Code -> {None} \cup {row \in Row : row.active}]
    /\ req = [q \in Request |-> Idle]
    /\ offered = coupons /\ stale = {}

-----------------------------------------------------------------------------
\* The primary key refuses a second one.
Create(c, row) ==
    /\ coupons[c] = None
    /\ coupons' = [coupons EXCEPT ![c] = row]
    /\ offered' = [offered EXCEPT ![c] = row]
    /\ UNCHANGED <<req, stale>>

Patch == [discount : Discount] \cup [active : BOOLEAN]

\* Update reads the coupon ...
Read(q, c) ==
    /\ req[q] = Idle /\ coupons[c] # None
    /\ \E patch \in Patch :
          req' = [req EXCEPT ![q] = [code |-> c, patch |-> patch, read |-> coupons[c]]]
    /\ UNCHANGED <<coupons, offered, stale>>

Merge(row, patch) == [f \in DOMAIN row |-> IF f \in DOMAIN patch THEN patch[f] ELSE row[f]]

\* Save gone wrong: what is left out counts as inactive.
SaveInactive(q) ==
    /\ req[q] # Idle
    /\ LET c == req[q].code
           saved == [Merge(req[q].read, req[q].patch) EXCEPT
                        !.active = @ /\ "active" \in DOMAIN req[q].patch]
       IN  /\ coupons' = IF coupons[c] = None THEN coupons ELSE [coupons EXCEPT ![c] = saved]
           /\ offered' = [offered EXCEPT ![c] = IF @ = None THEN @ ELSE Merge(@, req[q].patch)]
           /\ stale' = IF coupons[c] # req[q].read THEN stale \cup {c} ELSE stale
    /\ req' = [req EXCEPT ![q] = Idle]

\* Save gone wrong: a coupon that is gone is written again.
SaveAgain(q) ==
    /\ req[q] # Idle
    /\ LET c == req[q].code
       IN  /\ coupons' = [coupons EXCEPT ![c] = Merge(req[q].read, req[q].patch)]
           /\ offered' = [offered EXCEPT ![c] = IF @ = None THEN @ ELSE Merge(@, req[q].patch)]
           /\ stale' = IF coupons[c] # req[q].read THEN stale \cup {c} ELSE stale
    /\ req' = [req EXCEPT ![q] = Idle]

\* ... and writes it; a coupon that was deleted meanwhile stays deleted, and
\* the answer is that it was updated.
Save(q) ==
    /\ req[q] # Idle
    /\ LET c == req[q].code
           saved == Merge(req[q].read, req[q].patch)
       IN  /\ coupons' = IF coupons[c] = None THEN coupons ELSE [coupons EXCEPT ![c] = saved]
           /\ offered' = [offered EXCEPT ![c] = IF @ = None THEN @ ELSE Merge(@, req[q].patch)]
           /\ stale' = IF coupons[c] # req[q].read THEN stale \cup {c} ELSE stale
    /\ req' = [req EXCEPT ![q] = Idle]

Delete(c) ==
    /\ coupons[c] # None
    /\ coupons' = [coupons EXCEPT ![c] = None]
    /\ offered' = [offered EXCEPT ![c] = None]
    /\ UNCHANGED <<req, stale>>

\* The database fails before the row is written.
Fail(q) ==
    /\ req[q] # Idle
    /\ req' = [req EXCEPT ![q] = Idle]
    /\ UNCHANGED <<coupons, offered, stale>>

\* What GetActive answers a customer.
Redeemable == {c \in Code : coupons[c] # None /\ coupons[c].active}

Next ==
    \/ \E c \in Code, row \in Row : Create(c, row)
    \/ \E q \in Request, c \in Code : Read(q, c)
    \/ \E q \in Request : Save(q) \/ Fail(q)
    \/ \E c \in Code : Delete(c)

Spec == Init /\ [][Next]_vars

-----------------------------------------------------------------------------
\* A coupon is redeemed as staff last left it, also one that they edited in two
\* parts or deactivated, unless one of their edits was overtaken by another.
RedeemedAsOffered ==
    \A c \in Code \ stale :
        /\ c \in Redeemable <=> offered[c] # None /\ offered[c].active
        /\ c \in Redeemable => coupons[c].discount = offered[c].discount

\* A deleted coupon is gone, whatever edits of it are under way: only a create
\* brings the code back.
DeletedStaysDeleted == \A c \in Code : offered[c] = None <=> coupons[c] = None

-----------------------------------------------------------------------------
(* The inductive invariant of the proofs: what no edit has overtaken is what staff said. *)
CouponsInv ==
    /\ coupons \in [Code -> {None} \cup Row] /\ offered \in [Code -> {None} \cup Row]
    /\ req \in [Request -> {Idle} \cup [code : Code, patch : Patch, read : Row]]
    /\ \A c \in Code \ stale : coupons[c] = offered[c]
    /\ DeletedStaysDeleted
=============================================================================
