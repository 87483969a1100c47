------------------------------ MODULE Accounts ------------------------------
(***************************************************************************)
(* The table users of the auth service and the requests that change one    *)
(* account: logins, staff, the sync of a service's account at boot and the *)
(* reset of an administrator.  Each reads the row, decides, and saves the  *)
(* whole row; nothing is locked in between.                                *)
(***************************************************************************)
EXTENDS Integers, FiniteSets

CONSTANTS
    Request,            \* requests in progress
    MaxId,              \* ids given to this email, one after the other
    StaffOp,            \* what staff ask for
    maxFailedAttempts   \* wrong passwords that lock an account (5)

AccountsAssumption ==
    /\ IsFiniteSet(Request) /\ MaxId \in Nat \ {0} /\ maxFailedAttempts \in Nat \ {0}

Id == 1..MaxId

\* Management classes, in the order of their rank.
Customer == 0
Manager == 1
Admin == 2
Owner == 3

VARIABLES
    users,      \* the row of each id, or Gone
    req,        \* what each request does and the row it has read
    outbox,     \* ids whose user.deleted is durable
    born,       \* ids given so far
    decided,    \* history: the class and status that staff last decided
    streak,     \* history: wrong passwords saved since the count was reset
    overlapped  \* history: a row was saved over a change its request had not read

history == <<decided, streak, overlapped>>
vars == <<users, req, outbox, born, history>>

Gone == [class |-> Customer, active |-> FALSE, lock |-> "gone", failed |-> 0]
NewUser(c) == [class |-> c, active |-> TRUE, lock |-> "none", failed |-> 0]
Idle == [pc |-> "idle", op |-> "none", id |-> 0, read |-> Gone]

Exists(i) == users[i] # Gone
Taken == {i \in Id : Exists(i)}

Init ==
    /\ users = [i \in Id |-> Gone]
    /\ req = [q \in Request |-> Idle]
    /\ outbox = {} /\ born = 0
    /\ decided = NewUser(Customer) /\ streak = 0 /\ overlapped = FALSE

-----------------------------------------------------------------------------
\* Who may administer whom: only those below, and nobody an owner.
CanManage(caller, target) == caller # Customer /\ target < caller

IsLockExempt(u) == u.class \in {Admin, Owner}
IsLocked(u) == u.lock = "locked" /\ ~IsLockExempt(u)

\* Unlock gone wrong: a fresh start restores the whole account.
UnlockAll(u) == [u EXCEPT !.lock = "none", !.failed = 0, !.active = TRUE]

Unlock(u) == [u EXCEPT !.lock = "none", !.failed = 0]
Lock(u) == IF IsLockExempt(u) THEN u ELSE [u EXCEPT !.lock = "locked"]

\* What is in memory after a login met an expired lock, saved or not.
Fresh(u) == IF u.lock = "none" THEN u ELSE Unlock(u)

\* A wrong password counts, except against those who cannot be locked out.
CountFailure(u) ==
    IF IsLockExempt(u) THEN u
    ELSE LET v == [u EXCEPT !.failed = @ + 1]
         IN  IF v.failed >= maxFailedAttempts THEN Lock(v) ELSE v

\* The seeds bring a service's account back to what is configured.
syncServiceAccount(u) ==
    LET v == [u EXCEPT !.class = Customer, !.active = TRUE]
    IN  IF IsLocked(v) THEN Unlock(v) ELSE v

SetClass == [customer |-> Customer, manager |-> Manager, admin |-> Admin, owner |-> Owner]
SetActive == [activate |-> TRUE, deactivate |-> FALSE]

\* The row that an operation makes of the row it has read.
Change(op, u) ==
    CASE op \in DOMAIN SetClass -> [u EXCEPT !.class = SetClass[op]]
      [] op \in DOMAIN SetActive -> [u EXCEPT !.active = SetActive[op]]
      [] op = "reset" -> [u EXCEPT !.class = Admin]
      [] op = "sync" -> syncServiceAccount(u)
      [] op = "wrong" -> CountFailure(Fresh(u))
      [] op \in {"unlock", "right"} -> Unlock(u)
      [] OTHER -> u

-----------------------------------------------------------------------------
\* Save: the whole row, under its id; the index on emails lets one id have it.
\* A connection that fails leaves the row as it was.
Saves(i, u) == Taken \ {i} = {} /\ users' = [users EXCEPT ![i] = u]

Step(q, r) == req' = [req EXCEPT ![q] = r]
Done(q) == Step(q, Idle)

\* After an unread change was overwritten, the history says nothing more.
Forget == decided' = NewUser(Customer) /\ streak' = 0

\* Customers register themselves; a manager's account is made by somebody above it.
Register(c) ==
    /\ born < MaxId /\ born' = born + 1
    /\ Saves(born', NewUser(c))
    /\ decided' = NewUser(c) /\ streak' = 0 /\ overlapped' = FALSE
    /\ UNCHANGED <<req, outbox>>

\* Login gone wrong: a lock does not keep the right password out.
LoginThroughLock(q) ==
    /\ req[q].pc = "idle"
    /\ \E i \in Taken, op \in {"right", "wrong"} :
          Step(q, [Idle EXCEPT !.op = op, !.id = i, !.read = users[i],
                               !.pc = IF users[i].lock # "none" THEN "clear" ELSE "check"])
    /\ UNCHANGED <<users, outbox, born, history>>

\* A login finds the account by its email.  Locked: refused.  An expired lock, or
\* one of an exempt account, is cleared first.  Then the status, then the password.
Login(q) ==
    /\ req[q].pc = "idle"
    /\ \E i \in Taken, op \in {"right", "wrong"} :
          LET u == users[i]
          IN  /\ ~IsLocked(u)
              /\ Step(q, [Idle EXCEPT !.op = op, !.id = i, !.read = u,
                                      !.pc = IF u.lock # "none" THEN "clear" ELSE "check"])
    /\ UNCHANGED <<users, outbox, born, history>>

CheckStatus(q) ==
    /\ req[q].pc = "check"
    /\ LET u == req[q].read
       IN  IF u.active /\ Change(req[q].op, u) # Fresh(u)
             THEN Step(q, [req[q] EXCEPT !.pc = "save"]) ELSE Done(q)
    /\ UNCHANGED <<users, outbox, born, history>>

\* Nobody is made what is not below the caller, and nobody an owner.
CanAssignPermissions(caller, u, op) == CanManage(caller, u.class) /\ CanManage(caller, SetClass[op])

CanManageUser(caller, u) == CanManage(caller, u.class)

\* The caller and the target are judged on a first read of the row.
Authorize(q, op) ==
    /\ req[q].pc = "idle" /\ op \in StaffOp
    /\ \E i \in Taken, caller \in Manager..Owner :
          /\ IF op \in DOMAIN SetClass THEN CanAssignPermissions(caller, users[i], op)
             ELSE CanManageUser(caller, users[i])
          /\ Step(q, [Idle EXCEPT !.op = op, !.id = i, !.pc = "find"])
    /\ UNCHANGED <<users, outbox, born, history>>

SetUserPermissions(q) == \E op \in DOMAIN SetClass : Authorize(q, op)

SetUserStatus(q) == \E op \in DOMAIN SetActive : Authorize(q, op)

UpdateUserPassword(q) == Authorize(q, "password")

DeleteUser(q) == Authorize(q, "delete")

\* At boot: the seed of a service's account, or the reset of an administrator.
Boot(q) ==
    /\ req[q].pc = "idle"
    /\ \E i \in Taken, op \in {"sync", "reset"} :
          Step(q, [Idle EXCEPT !.op = op, !.id = i, !.pc = "find"])
    /\ UNCHANGED <<users, outbox, born, history>>

\* The service reads the row again, the one it will save.
FindByID(q) ==
    /\ req[q].pc = "find"
    /\ LET u == users[req[q].id]
       IN  IF u = Gone THEN Done(q)
           ELSE Step(q, [req[q] EXCEPT !.read = u, !.pc =
                           IF req[q].op = "delete" THEN "delete" ELSE "save"])
    /\ UNCHANGED <<users, outbox, born, history>>

Decides(op) == op \in DOMAIN SetClass \cup DOMAIN SetActive \cup {"reset", "sync"}

\* How a save moves the count of wrong passwords.
Count(op, u) ==
    CASE op \in {"unlock", "right"} -> 0
      [] op = "wrong" /\ ~IsLockExempt(u) -> (IF u.lock = "none" THEN streak ELSE 0) + 1
      [] op = "sync" /\ IsLocked([u EXCEPT !.class = Customer]) -> 0
      [] OTHER -> streak

\* The saves of all requests; a login goes on after clearing a lock, saved or not.
Save(q) ==
    /\ req[q].pc \in {"clear", "save"}
    /\ LET i == req[q].id
           u == req[q].read
           op == IF req[q].pc = "clear" THEN "unlock" ELSE req[q].op
           next(r) == IF req[q].pc = "clear" THEN Step(q, [req[q] EXCEPT !.read = r, !.pc = "check"])
                      ELSE Done(q)
       IN  \/ /\ Saves(i, Change(op, u)) /\ next(Unlock(u))
              /\ overlapped' = (overlapped \/ users[i] # u)
              /\ IF overlapped' THEN Forget
                 ELSE /\ decided' = IF Decides(op) THEN Change(op, decided) ELSE decided
                      /\ streak' = Count(op, u)
           \/ UNCHANGED <<users, history>> /\ next(u)
    /\ UNCHANGED <<outbox, born>>

\* DeleteAndEnqueue gone wrong: the event is sent after the transaction.
DeleteThenAnnounce(q) ==
    /\ req[q].pc = "delete"
    /\ \/ users' = [users EXCEPT ![req[q].id] = Gone] /\ UNCHANGED outbox
       \/ UNCHANGED users /\ Exists(req[q].id) /\ outbox' = outbox \cup {req[q].id}
    /\ Done(q)
    /\ UNCHANGED <<born, history>>

\* The row and its event, in one transaction that may fail as a whole.
DeleteAndEnqueue(q) ==
    /\ req[q].pc = "delete"
    /\ LET i == req[q].id
       IN  \/ Exists(i) /\ users' = [users EXCEPT ![i] = Gone] /\ outbox' = outbox \cup {i}
           \/ UNCHANGED <<users, outbox>>
    /\ Done(q)
    /\ UNCHANGED <<born, history>>

\* Fifteen minutes pass.
LockExpires ==
    /\ \E i \in Taken : users[i].lock = "locked" /\ users' = [users EXCEPT ![i].lock = "expired"]
    /\ UNCHANGED <<req, outbox, born, history>>

\* The process stops in the middle of a request.
Crash(q) == req[q].pc # "idle" /\ Done(q) /\ UNCHANGED <<users, outbox, born, history>>

Next ==
    \/ Register(Customer) \/ Register(Manager) \/ LockExpires
    \/ \E q \in Request :
          \/ Login(q) \/ CheckStatus(q) \/ Boot(q) \/ FindByID(q)
          \/ SetUserPermissions(q) \/ SetUserStatus(q) \/ UpdateUserPassword(q) \/ DeleteUser(q)
          \/ Save(q) \/ DeleteAndEnqueue(q) \/ Crash(q)

Spec == Init /\ [][Next]_vars

-----------------------------------------------------------------------------
Row == [class : Customer..Admin, active : BOOLEAN, lock : {"none", "locked", "expired"},
        failed : 0..maxFailedAttempts]

\* The type invariant: no request makes an owner, and one id has the email.
TypeOK ==
    /\ \A i \in Taken : users[i] \in Row
    /\ Cardinality(Taken) <= 1

\* Logins keep what staff decided, staff keep the count of wrong passwords, and each
\* wrong password counts once: the row is what its history says unless a request
\* saved over a change that it had not read.
RowFollowsHistory ==
    overlapped \/ \A i \in Taken : /\ users[i].class = decided.class
                                   /\ users[i].active = decided.active
                                   /\ users[i].failed = streak

\* A lock holds until it expires or its account is promoted, reconfigured or deleted,
\* whatever passwords are tried: only a save over an unread change lifts it.
LockHoldsStep ==
    \A i \in Id : IsLocked(users[i]) /\ users'[i].lock = "none" =>
       overlapped' \/ \E q \in Request : req[q].op = "sync" /\ req'[q] = Idle

LockHolds == [][LockHoldsStep]_vars

\* An account that is gone is announced, and one that was announced comes back only
\* by a save over its deletion.
GoneIsAnnounced == \A i \in 1..born : IF Exists(i) THEN i \in outbox => overlapped ELSE i \in outbox

\* The comment on DeleteUser: the account is gone if and only if the event is durable.
GoneIffDurable == \A i \in outbox : ~Exists(i)

-----------------------------------------------------------------------------
(* The inductive invariant of the proofs, in parts. *)

\* Wrong passwords are counted up to the limit, which locks.
RowOK(u) == u \in Row /\ (u.lock = "none" => u.failed < maxFailedAttempts)

LoginOp == {"right", "wrong"}
SavedOp == {"customer", "manager", "admin", "activate", "deactivate", "password", "delete",
            "reset", "sync"}

\* A login holds a row that was not locked, and counts only against those who can be.
RequestOK(x) ==
    \/ x = Idle
    \/ /\ x.id \in 1..born /\ x.id \in Id
       /\ \/ x.pc \in {"clear", "check"} /\ x.op \in LoginOp
          \/ x.pc = "save" /\ x.op \in LoginOp \cup SavedOp
          \/ x.pc \in {"find", "delete"} /\ x.op \in SavedOp
       /\ x.pc \in {"clear", "check", "save"} => RowOK(x.read)
       /\ x.op \in LoginOp => ~IsLocked(x.read)
       /\ x.pc = "save" /\ x.op = "wrong" => ~IsLockExempt(x.read)

TablesInv ==
    /\ users \in [Id -> Row \cup {Gone}]
    /\ \A i \in Taken : RowOK(users[i]) /\ i <= born
    /\ \A i, j \in Taken : i = j
    /\ born \in 0..MaxId /\ outbox \subseteq 1..born

AccountsInv ==
    /\ TablesInv /\ RowFollowsHistory /\ GoneIsAnnounced
    /\ req \in [Request -> [pc : {"idle", "clear", "check", "save", "find", "delete"},
                            op : {"none"} \cup LoginOp \cup SavedOp, id : {0} \cup Id,
                            read : Row \cup {Gone}]]
    /\ \A q \in Request : RequestOK(req[q])
    /\ RowOK(decided) /\ streak \in Nat /\ overlapped \in BOOLEAN
=============================================================================
